---- MODULE Spec2Model ----
(***************************************************************************)
(* cmdorc: CommandRunner (command_runner.py) and RunResult (run_result.py) *)
(* as a state machine over the asyncio event loop.                         *)
(*                                                                         *)
(* The event loop is single threaded: `ready` is its FIFO queue of         *)
(* callbacks.  Every API call (trigger, run_command, cancel_command,       *)
(* cancel_all) and every callback runs to its next suspension point as one *)
(* atomic action.  Child processes, timers and subprocess creation are the *)
(* environment: they complete at any time and make the waiting task ready. *)
(***************************************************************************)
EXTENDS Naturals, Sequences, FiniteSets, TLC

VARIABLES
    config,     \* CommandRunner._command_configs, in insertion order
    runs,       \* every RunResult created so far, indexed by run id
    tasks,      \* per run: the asyncio task running CommandRunner._execute
    procs,      \* per run: the child process as the operating system sees it
    live,       \* CommandRunner._live_runs: command name -> sequence of run ids
    history,    \* CommandRunner._history:   command name -> sequence of run ids
    ready,      \* the event loop's FIFO queue of ready callbacks
    lastCall,   \* the most recent API call, when it raised or skipped a command
    completed,  \* history variable: per command, the run ids in completion order
    cancels,    \* history variable: per run, cancel() was called 0, 1 or more times
    replaced,   \* history variable: per run, cancelled by a retrigger before it finished
    cycles,     \* history variable: number of dispatches aborted as a cycle
    clock,      \* datetime.now(), advanced only in the RunResult specification
    callbacks,  \* CommandRunner._callbacks, in registration order
    calls,      \* the callbacks the most recent dispatch invoked, in order
    emitted,    \* history variable: per run, the lifecycle events emitted for it
    executor,   \* a LocalSubprocessExecutor with one run, and its cancel_run calls
    handle,     \* a RunHandle, its future, watcher task and wait() calls
    policy,     \* the arguments of a policy's decide() and the decision returned
    chains      \* the _seen lists as objects, and the runs, tasks and callers holding them

vars == <<config, runs, tasks, procs, live, history, ready, lastCall,
          completed, cancels, replaced, cycles, clock, callbacks, calls, emitted,
          executor, handle, policy, chains>>

(***************************************************************************)
(* Bounds of the model.                                                    *)
(***************************************************************************)
MaxRuns == 2        \* RunResults created in one behaviour of Spec
MaxClock == 4       \* largest reading of the clock in SpecRunResult
MaxStarts == 2      \* external start requests in SpecLoop

(***************************************************************************)
(* RunState and RunResult (run_result.py).                                 *)
(***************************************************************************)
PENDING == "pending"
RUNNING == "running"
SUCCESS == "success"
FAILED == "failed"
CANCELLED == "cancelled"

RunState == {PENDING, RUNNING, SUCCESS, FAILED, CANCELLED}
Terminal == {SUCCESS, FAILED, CANCELLED}

NoTime == 0         \* start_time / end_time = None
NoError == "none"   \* error = None

\* RunResult(trigger_event=...) with command_name and _seen set by run_command.
\* `future` is the asyncio.Future of the record; nfinal records whether
\* _finalize ran 0, 1 or more times, resolved whether future.set_result was
\* called 0, 1 or more times (a second call raises InvalidStateError).
NewRunResult(name, event, seen) ==
    [command_name |-> name, trigger_event |-> event, seen |-> seen,
     state |-> PENDING, success |-> "none", error |-> NoError,
     start_time |-> NoTime, end_time |-> NoTime,
     future |-> "pending", nfinal |-> 0, resolved |-> 0]

\* _finalize calling future.set_result without looking at future.done()
FinalizeUnguarded(r, t) ==
    [r EXCEPT !.end_time = t,
              !.future = "done",
              !.nfinal = IF @ < 2 THEN @ + 1 ELSE @,
              !.resolved = IF @ < 2 THEN @ + 1 ELSE @]

\* RunResult._finalize: record end time, resolve the future if it is not done.
Finalize(r, t) ==
    [r EXCEPT !.end_time = t,
              !.future = "done",
              !.nfinal = IF @ < 2 THEN @ + 1 ELSE @,
              !.resolved = IF r.future = "done" THEN @ ELSE @ + 1]

\* RunResult.mark_running: warns when not PENDING, and sets RUNNING regardless.
MarkRunning(r, t) ==
    [r EXCEPT !.state = RUNNING, !.start_time = t]

\* RunResult.mark_success
MarkSuccess(r, t) ==
    Finalize([r EXCEPT !.state = SUCCESS, !.success = "true"], t)

\* RunResult.mark_failed
MarkFailed(r, err, t) ==
    Finalize([r EXCEPT !.state = FAILED, !.success = "false", !.error = err], t)

\* RunResult.mark_cancelled: error = reason or "Command was cancelled"
MarkCancelled(r, reason, t) ==
    Finalize([r EXCEPT !.state = CANCELLED, !.success = "none",
                       !.error = IF reason = NoError
                                 THEN "Command was cancelled" ELSE reason], t)

\* RunResult.is_finished
IsFinished(r) == r.state \notin {PENDING, RUNNING}

(***************************************************************************)
(* CommandConfig (command_config.py).  timeout is "timeout_secs is set";   *)
(* resolvable is "every {{ var }} of the command template has a value".    *)
(* debounce_in_ms and loop_detection have the defaults of the dataclass.   *)
(***************************************************************************)
CommandConfig(name, triggers, cancel_on_triggers, max_concurrent, on_retrigger, keep_history, timeout, resolvable) ==
    [name |-> name, triggers |-> triggers,
     cancel_on_triggers |-> cancel_on_triggers,
     max_concurrent |-> max_concurrent, on_retrigger |-> on_retrigger,
     keep_history |-> keep_history, timeout |-> timeout,
     resolvable |-> resolvable,
     debounce_in_ms |-> 0, loop_detection |-> TRUE]

InSeq(x, seq) == \E k \in DOMAIN seq : seq[k] = x

Names == {config[k].name : k \in DOMAIN config}

\* self._command_configs[name]
Cfg(name) == config[CHOOSE k \in DOMAIN config : config[k].name = name]

\* _build_trigger_map registering a command under its first trigger only
TriggerMapFirstOnly(event) ==
    SelectSeq(config, LAMBDA c : c.triggers # <<>> /\ c.triggers[1] = event)

\* self._trigger_map.get(event, []): subscribers in configuration order
TriggerMap(event) ==
    SelectSeq(config, LAMBDA c : InSeq(event, c.triggers))

\* self._cancel_trigger_map.get(event, [])
CancelTriggerMap(event) ==
    SelectSeq(config, LAMBDA c : InSeq(event, c.cancel_on_triggers))

\* self._callbacks.get(event, [])
CallbacksFor(event) ==
    SelectSeq(callbacks, LAMBDA c : c.event = event)

\* trigger(): "is there anything to do" for the event
HasHandler(event) ==
    \/ TriggerMap(event) # <<>>
    \/ CancelTriggerMap(event) # <<>>
    \/ CallbacksFor(event) # <<>>

(***************************************************************************)
(* The event loop.  A handle is a callback in the ready queue: one step of *)
(* an _execute task, the done callback of an _execute task, or a task      *)
(* created for CommandRunner.trigger.                                      *)
(***************************************************************************)
StepHandle(i) == [kind |-> "step", run |-> i, event |-> "", seen |-> <<>>]
DoneHandle(i) == [kind |-> "done", run |-> i, event |-> "", seen |-> <<>>]
\* asyncio.create_task(cb(None)) for a coroutine function cb
CallbackHandle(cb) == [kind |-> "callback", run |-> 0, event |-> cb.event, seen |-> <<>>]
AsyncKinds == {"async", "async_raises"}
TriggerHandle(e, seen, i) == [kind |-> "trigger", run |-> i, event |-> e, seen |-> seen]

\* asyncio.create_task(self._execute(cmd, result)): scheduled, not yet started.
\* pc is the await the coroutine is suspended at, must_cancel that a
\* CancelledError is thrown into it at its next step, wake what the awaited
\* operation delivered, sched that a step is in the ready queue, proc_ref that
\* the coroutine's local `proc` is set.
NewTask ==
    [pc |-> "start", must_cancel |-> FALSE, wake |-> "none",
     sched |-> TRUE, proc_ref |-> FALSE]

Alive(p) == p \in {"running", "eof"}
Exited(p) == p \in {"exit0", "exit1"}

\* The mutable state as one record, so that the code's statements compose.
\* error and skipped are the exception state of the call in progress.
Bundle ==
    [runs |-> runs, tasks |-> tasks, procs |-> procs, live |-> live,
     history |-> history, ready |-> ready, completed |-> completed,
     cancels |-> cancels, replaced |-> replaced, cycles |-> cycles,
     calls |-> calls, emitted |-> emitted,
     error |-> "none", skipped |-> {}]

Commit(s) ==
    /\ runs' = s.runs
    /\ tasks' = s.tasks
    /\ procs' = s.procs
    /\ live' = s.live
    /\ history' = s.history
    /\ ready' = s.ready
    /\ completed' = s.completed
    /\ cancels' = s.cancels
    /\ replaced' = s.replaced
    /\ cycles' = s.cycles
    /\ calls' = s.calls
    /\ emitted' = s.emitted

\* The coroutine suspends at an await.
Suspend(s, i, pc) ==
    [s EXCEPT !.tasks[i] = [@ EXCEPT !.pc = pc, !.must_cancel = FALSE,
                                     !.wake = "none", !.sched = FALSE]]

\* The coroutine returns or raises: the task is done and its done callback
\* (run_command's lambda calling _task_completed) is scheduled.
FinishTask(s, i) ==
    [s EXCEPT !.tasks[i] = [@ EXCEPT !.pc = "done", !.must_cancel = FALSE,
                                     !.wake = "none", !.sched = FALSE],
              !.ready = Append(@, DoneHandle(i))]

\* RunResult.cancel(): if the task is not done, task.cancel().  A waiting task
\* is woken with CancelledError; a task already scheduled gets it at its step.
RunCancel(s, i) ==
    LET counted == [s EXCEPT !.cancels[i] = IF @ < 2 THEN @ + 1 ELSE @]
    IN  IF s.tasks[i].pc = "done"
        THEN counted
        ELSE [counted EXCEPT
                 !.tasks[i] = [@ EXCEPT !.must_cancel = TRUE, !.sched = TRUE],
                 !.ready = IF s.tasks[i].sched THEN @ ELSE Append(@, StepHandle(i))]

\* for run in <list>: run.cancel()
RECURSIVE CancelRuns(_, _)
CancelRuns(s, ids) ==
    IF ids = <<>> THEN s ELSE CancelRuns(RunCancel(s, Head(ids)), Tail(ids))

(***************************************************************************)
(* CommandRunner: starting runs and dispatching events.                    *)
(***************************************************************************)
\* _should_start_new_run comparing with <= instead of <
ShouldStartNewRunOffByOne(cmd, liveRuns) ==
    IF cmd.max_concurrent <= 0 \/ Len(liveRuns) <= cmd.max_concurrent
    THEN [start |-> TRUE, cancel |-> <<>>]
    ELSE IF cmd.on_retrigger = "ignore"
    THEN [start |-> FALSE, cancel |-> <<>>]
    ELSE [start |-> TRUE, cancel |-> liveRuns]

\* CommandRunner._should_start_new_run: whether to start, and the live runs
\* it calls cancel() on first.
ShouldStartNewRun(cmd, liveRuns) ==
    IF cmd.max_concurrent <= 0 \/ Len(liveRuns) < cmd.max_concurrent
    THEN [start |-> TRUE, cancel |-> <<>>]
    ELSE IF cmd.on_retrigger = "ignore"
    THEN [start |-> FALSE, cancel |-> <<>>]
    ELSE [start |-> TRUE, cancel |-> liveRuns]

\* _trigger_with_cycle_detection that never passes the chain of the run
TriggerWithCycleDetectionNoChain(s, event, seen, i) ==
    LET logged == [s EXCEPT !.emitted[i] = Append(@, event)]
    IN  IF ~HasHandler(event)
        THEN logged
        ELSE [logged EXCEPT !.ready = Append(@, TriggerHandle(event, <<>>, i))]

\* _trigger_with_cycle_detection: asyncio.create_task(self.trigger(event,
\* _seen=result._seen.copy())), or trigger(event) when _seen is None.
\* A task for an event nothing subscribes to would return at trigger()'s first
\* check without any effect; it is left out of the queue.  i is the run the
\* lifecycle event is about.
TriggerWithCycleDetection(s, event, seen, i) ==
    LET logged == [s EXCEPT !.emitted[i] = Append(@, event)]
    IN  IF ~HasHandler(event)
        THEN logged
        ELSE [logged EXCEPT !.ready = Append(@, TriggerHandle(event, seen, i))]

\* run_command without the command_started emission
RunCommandInNoStarted(s, name, event, seen) ==
    IF name \notin Names
    THEN [s EXCEPT !.error = "ValueError"]
    ELSE
    LET cmd == Cfg(name)
        d == ShouldStartNewRun(cmd, s.live[name])
    IN  IF ~d.start
        THEN [s EXCEPT !.error = "ValueError"]
        ELSE
        LET s1 == CancelRuns(s, d.cancel)
            id == Len(s1.runs) + 1
            ev == IF event = "" THEN "run_command:" \o name ELSE event
            result == MarkRunning(NewRunResult(name, ev, seen), clock)
            s2 == [s1 EXCEPT !.runs = Append(@, result),
                             !.tasks = Append(@, NewTask),
                             !.procs = Append(@, "none"),
                             !.cancels = Append(@, 0),
                             !.replaced = Append(@, FALSE),
                             !.emitted = Append(@, <<>>),
                             !.error = "none"]
        IN  [s2 EXCEPT !.ready = Append(@, StepHandle(id)),
                       !.live[name] = Append(@, id)]

\* CommandRunner.run_command.  An empty event stands for trigger_event=None;
\* an empty seen for _seen=None (the code maps an empty list to None too).
\* s.error = "ValueError" when the call raised.
RunCommandIn(s, name, event, seen) ==
    IF name \notin Names
    THEN [s EXCEPT !.error = "ValueError"]
    ELSE
    LET cmd == Cfg(name)
        d == ShouldStartNewRun(cmd, s.live[name])
    IN  IF ~d.start
        THEN [s EXCEPT !.error = "ValueError"]
        ELSE
        LET marked == [s EXCEPT !.replaced =
                          [j \in DOMAIN @ |->
                              @[j] \/ (InSeq(j, d.cancel) /\ ~IsFinished(s.runs[j]))]]
            s1 == CancelRuns(marked, d.cancel)
            id == Len(s1.runs) + 1
            ev == IF event = "" THEN "run_command:" \o name ELSE event
            result == MarkRunning(NewRunResult(name, ev, seen), clock)
            s2 == [s1 EXCEPT !.runs = Append(@, result),
                             !.tasks = Append(@, NewTask),
                             !.procs = Append(@, "none"),
                             !.cancels = Append(@, 0),
                             !.replaced = Append(@, FALSE),
                             !.emitted = Append(@, <<>>),
                             !.error = "none"]
            s3 == TriggerWithCycleDetection(s2, "command_started:" \o name, seen, id)
        IN  [s3 EXCEPT !.ready = Append(@, StepHandle(id)),
                       !.live[name] = Append(@, id)]

\* trigger(): for cmd in self._cancel_trigger_map[event]: cancel its live runs
RECURSIVE CancelCommands(_, _)
CancelCommands(s, cmds) ==
    IF cmds = <<>> THEN s
    ELSE CancelCommands(CancelRuns(s, s.live[Head(cmds).name]), Tail(cmds))

\* the start loop without the try: the first ValueError ends the loop and
\* leaves trigger()
RECURSIVE StartCommandsUncaught(_, _, _, _)
StartCommandsUncaught(s, cmds, event, seen) ==
    IF cmds = <<>> THEN s
    ELSE LET t == RunCommandIn(s, Head(cmds).name, event, seen)
         IN  IF t.error = "none"
             THEN StartCommandsUncaught(t, Tail(cmds), event, seen)
             ELSE t

\* trigger(): for cmd in self._trigger_map[event]: run_command(...), a
\* ValueError skips the command and the loop goes on.
RECURSIVE StartCommands(_, _, _, _)
StartCommands(s, cmds, event, seen) ==
    IF cmds = <<>> THEN s
    ELSE LET t == RunCommandIn(s, Head(cmds).name, event, seen)
             u == IF t.error = "none" THEN t
                  ELSE [t EXCEPT !.error = "none",
                                 !.skipped = @ \cup {Head(cmds).name}]
         IN  StartCommands(u, Tail(cmds), event, seen)

\* the callback loop with the try around the loop instead of inside it: the
\* first callback that raises ends the loop
RECURSIVE InvokeCallbacksUnguarded(_, _, _)
InvokeCallbacksUnguarded(s, cbs, k) ==
    IF k > Len(cbs) THEN s
    ELSE LET cb == cbs[k]
             called == [s EXCEPT !.calls = Append(@,
                          [event |-> cb.event, cb |-> k, nruns |-> Len(s.runs)])]
             next == IF cb.kind \in AsyncKinds
                     THEN [called EXCEPT !.ready = Append(@, CallbackHandle(cb))]
                     ELSE called
         IN  IF cb.kind = "sync_raises"
             THEN [called EXCEPT !.error = "Exception"]
             ELSE InvokeCallbacksUnguarded(next, cbs, k + 1)

\* trigger(): for cb in self._callbacks.get(event_name, []): create_task(cb(None))
\* for a coroutine function, cb(None) otherwise; an Exception is logged and the
\* loop goes on.  A callback has no access to the runner here.
RECURSIVE InvokeCallbacks(_, _, _)
InvokeCallbacks(s, cbs, k) ==
    IF k > Len(cbs) THEN s
    ELSE LET cb == cbs[k]
             called == [s EXCEPT !.calls = Append(@,
                          [event |-> cb.event, cb |-> k, nruns |-> Len(s.runs)])]
             next == IF cb.kind \in AsyncKinds
                     THEN [called EXCEPT !.ready = Append(@, CallbackHandle(cb))]
                     ELSE called
         IN  InvokeCallbacks(next, cbs, k + 1)

\* trigger() without the `event_name in _seen` check
TriggerInUnchecked(s, event, seen) ==
    LET fresh == [s EXCEPT !.calls = <<>>]
    IN  IF ~HasHandler(event)
        THEN fresh
        ELSE LET chain == Append(seen, event)
                 s1 == CancelCommands(fresh, CancelTriggerMap(event))
                 s2 == StartCommands(s1, TriggerMap(event), event, chain)
             IN  InvokeCallbacks(s2, CallbacksFor(event), 1)

\* trigger() starting the subscribers before it cancels
TriggerInStartFirst(s, event, seen) ==
    LET fresh == [s EXCEPT !.calls = <<>>]
    IN  IF ~HasHandler(event)
        THEN fresh
        ELSE IF InSeq(event, seen)
        THEN [fresh EXCEPT !.cycles = @ + 1]
        ELSE LET chain == Append(seen, event)
                 s1 == StartCommands(fresh, TriggerMap(event), event, chain)
                 s2 == CancelCommands(s1, CancelTriggerMap(event))
             IN  InvokeCallbacks(s2, CallbacksFor(event), 1)

\* CommandRunner.trigger(event_name, _seen): nothing to do, or a cycle, or
\* the cancel loop, the start loop and the callback loop.
TriggerIn(s, event, seen) ==
    LET fresh == [s EXCEPT !.calls = <<>>]
    IN  IF ~HasHandler(event)
        THEN fresh
        ELSE IF InSeq(event, seen)
        THEN [fresh EXCEPT !.cycles = @ + 1]
        ELSE LET chain == Append(seen, event)
                 s1 == CancelCommands(fresh, CancelTriggerMap(event))
                 s2 == StartCommands(s1, TriggerMap(event), event, chain)
             IN  InvokeCallbacks(s2, CallbacksFor(event), 1)

(***************************************************************************)
(* CommandRunner._execute, one step at a time.                             *)
(***************************************************************************)
SetRun(s, i, r) == [s EXCEPT !.runs[i] = r]

\* _terminate_process(proc) entered from the timeout path (pre = "to") or the
\* cancellation path (pre = "c"): terminate() and sleep(grace) if the process
\* has not exited, else wait() returns at once.
TerminateProcess(s, i, pre) ==
    IF s.tasks[i].proc_ref /\ Alive(s.procs[i])
    THEN Suspend(s, i, pre \o "_sleep")
    ELSE FinishTask(s, i)

\* _terminate_process after the sleep: kill() if still running, then wait().
AfterGrace(s, i, pre) ==
    IF Alive(s.procs[i])
    THEN Suspend(s, i, pre \o "_wait")
    ELSE FinishTask(s, i)

\* result.mark_cancelled(); await self._terminate_process(proc); return
AfterCancelRead(s, i) ==
    TerminateProcess(
        SetRun(s, i, MarkCancelled(s.runs[i], NoError, clock)), i, "c")

\* except asyncio.CancelledError: result.output = await _read_partial_output(proc)
\* reads stdout and stderr to end of file, which suspends while they are open.
OnCancelled(s, i) ==
    IF s.tasks[i].proc_ref /\ s.procs[i] = "running"
    THEN Suspend(s, i, "c_read")
    ELSE AfterCancelRead(s, i)

\* await self._terminate_process(proc); return   (timeout path)
AfterTimeoutRead(s, i) == TerminateProcess(s, i, "to")

\* except asyncio.TimeoutError: result.mark_failed("Timeout exceeded");
\* result.output = await self._read_partial_output(proc)
OnTimeout(s, i) ==
    LET s1 == SetRun(s, i, MarkFailed(s.runs[i], "Timeout exceeded", clock))
    IN  IF s1.procs[i] = "running"
        THEN Suspend(s1, i, "to_read")
        ELSE AfterTimeoutRead(s1, i)

\* communicate() returned: decode, check the exit code, mark_success, or
\* raise RuntimeError into except Exception: mark_failed(str(exc)).
CommunicateDone(s, i) ==
    IF s.procs[i] = "exit0"
    THEN FinishTask(SetRun(s, i, MarkSuccess(s.runs[i], clock)), i)
    ELSE FinishTask(SetRun(s, i, MarkFailed(s.runs[i], "Exit code", clock)), i)

\* One step of the coroutine of run i.  swallow: the runtime's wait_for
\* returns the finished communicate() instead of raising CancelledError
\* (asyncio of Python 3.11 does, later versions do not).
ExecuteStep(s, i, swallow) ==
    LET t == s.tasks[i]
        cmd == Cfg(s.runs[i].command_name)
        cancelled == t.must_cancel
    IN  CASE t.pc = "start" ->
                IF cancelled THEN FinishTask(s, i)
                ELSE IF ~cmd.resolvable
                THEN FinishTask(SetRun(s, i,
                        MarkFailed(s.runs[i], "Missing variable", clock)), i)
                ELSE Suspend(s, i, "spawn")
          [] t.pc = "spawn" ->
                IF cancelled THEN OnCancelled(s, i)
                ELSE IF t.wake = "fail"
                THEN FinishTask(SetRun(s, i,
                        MarkFailed(s.runs[i], "spawn failed", clock)), i)
                ELSE LET s1 == [s EXCEPT !.tasks[i].proc_ref = TRUE]
                     IN  IF Exited(s1.procs[i])
                         THEN CommunicateDone(s1, i)
                         ELSE Suspend(s1, i, "communicate")
          [] t.pc = "communicate" ->
                IF cancelled /\ ~(swallow /\ cmd.timeout /\ Exited(s.procs[i]))
                THEN OnCancelled(s, i)
                ELSE IF Exited(s.procs[i]) /\ (cancelled \/ t.wake # "timeout")
                THEN CommunicateDone(s, i)
                ELSE OnTimeout(s, i)
          [] t.pc = "to_read" ->
                IF cancelled THEN OnCancelled(s, i) ELSE AfterTimeoutRead(s, i)
          [] t.pc = "to_sleep" ->
                IF cancelled THEN OnCancelled(s, i) ELSE AfterGrace(s, i, "to")
          [] t.pc = "to_wait" ->
                IF cancelled THEN OnCancelled(s, i) ELSE FinishTask(s, i)
          [] t.pc = "c_read" ->
                IF cancelled THEN FinishTask(s, i) ELSE AfterCancelRead(s, i)
          [] t.pc = "c_sleep" ->
                IF cancelled THEN FinishTask(s, i) ELSE AfterGrace(s, i, "c")
          [] t.pc = "c_wait" -> FinishTask(s, i)

\* the slice taken from the front: [:cfg.keep_history]
TrimHistoryFromFront(h, keep) ==
    IF Len(h) > keep THEN SubSeq(h, 1, keep) ELSE h

\* self._history[cmd_name][-cfg.keep_history:]
TrimHistory(h, keep) ==
    IF Len(h) > keep THEN SubSeq(h, Len(h) - keep + 1, Len(h)) ELSE h

\* _task_completed emitting command_finished whatever the state
TaskCompletedAlwaysFinished(s, i) ==
    LET r == s.runs[i]
        name == r.command_name
        cfg == Cfg(name)
        remaining == SelectSeq(s.live[name], LAMBDA j : j # i)
    IN  IF r.state = RUNNING
        THEN s
        ELSE IF Len(remaining) = Len(s.live[name])
        THEN s
        ELSE
        LET s1 == [s EXCEPT
                     !.live[name] = remaining,
                     !.completed[name] = Append(@, i),
                     !.history[name] =
                         IF cfg.keep_history > 0
                         THEN TrimHistory(Append(@, i), cfg.keep_history)
                         ELSE @]
            s2 == TriggerWithCycleDetection(
                     s1, "command_" \o r.state \o ":" \o name, r.seen, i)
        IN  TriggerWithCycleDetection(s2, "command_finished:" \o name, r.seen, i)

\* _task_completed without the keep_history > 0 test: the slice [-0:] of
\* Python is the whole list, so with keep_history = 0 nothing is dropped
TaskCompletedUnguardedHistory(s, i) ==
    LET r == s.runs[i]
        name == r.command_name
        cfg == Cfg(name)
        remaining == SelectSeq(s.live[name], LAMBDA j : j # i)
    IN  IF r.state = RUNNING \/ Len(remaining) = Len(s.live[name])
        THEN s
        ELSE
        LET s1 == [s EXCEPT
                     !.live[name] = remaining,
                     !.completed[name] = Append(@, i),
                     !.history[name] =
                         IF cfg.keep_history > 0
                         THEN TrimHistory(Append(@, i), cfg.keep_history)
                         ELSE Append(@, i)]
            s2 == TriggerWithCycleDetection(
                     s1, "command_" \o r.state \o ":" \o name, r.seen, i)
        IN  IF r.state \in {SUCCESS, FAILED}
            THEN TriggerWithCycleDetection(
                     s2, "command_finished:" \o name, r.seen, i)
            ELSE s2

\* _task_completed that stores the run in history and leaves it in the live list
TaskCompletedKeepsLive(s, i) ==
    LET r == s.runs[i]
        name == r.command_name
        cfg == Cfg(name)
    IN  IF r.state = RUNNING
        THEN s
        ELSE
        LET s1 == [s EXCEPT
                     !.completed[name] = Append(@, i),
                     !.history[name] =
                         IF cfg.keep_history > 0
                         THEN TrimHistory(Append(@, i), cfg.keep_history)
                         ELSE @]
            s2 == TriggerWithCycleDetection(
                     s1, "command_" \o r.state \o ":" \o name, r.seen, i)
        IN  IF r.state \in {SUCCESS, FAILED}
            THEN TriggerWithCycleDetection(
                     s2, "command_finished:" \o name, r.seen, i)
            ELSE s2

\* _task_completed without the return on a run already absent from the live
\* list
TaskCompletedNoDuplicateCheck(s, i) ==
    LET r == s.runs[i]
        name == r.command_name
        cfg == Cfg(name)
        remaining == SelectSeq(s.live[name], LAMBDA j : j # i)
    IN  IF r.state = RUNNING
        THEN s
        ELSE
        LET s1 == [s EXCEPT
                     !.live[name] = remaining,
                     !.completed[name] = Append(@, i),
                     !.history[name] =
                         IF cfg.keep_history > 0
                         THEN TrimHistory(Append(@, i), cfg.keep_history)
                         ELSE @]
            s2 == TriggerWithCycleDetection(
                     s1, "command_" \o r.state \o ":" \o name, r.seen, i)
        IN  IF r.state \in {SUCCESS, FAILED}
            THEN TriggerWithCycleDetection(
                     s2, "command_finished:" \o name, r.seen, i)
            ELSE s2

\* _task_completed that leaves a successful run in the live list while its
\* lifecycle events are emitted
TaskCompletedSuccessStaysLive(s, i) ==
    LET r == s.runs[i]
        name == r.command_name
        cfg == Cfg(name)
        remaining == SelectSeq(s.live[name], LAMBDA j : j # i)
    IN  IF r.state = RUNNING
        THEN s
        ELSE IF Len(remaining) = Len(s.live[name])
        THEN s
        ELSE
        LET s1 == [s EXCEPT
                     !.live[name] = IF r.state = SUCCESS THEN @ ELSE remaining,
                     !.completed[name] = Append(@, i),
                     !.history[name] =
                         IF cfg.keep_history > 0
                         THEN TrimHistory(Append(@, i), cfg.keep_history)
                         ELSE @]
            s2 == TriggerWithCycleDetection(
                     s1, "command_" \o r.state \o ":" \o name, r.seen, i)
        IN  IF r.state \in {SUCCESS, FAILED}
            THEN TriggerWithCycleDetection(
                     s2, "command_finished:" \o name, r.seen, i)
            ELSE s2

\* CommandRunner._task_completed(cmd_name, result), the done callback.
TaskCompleted(s, i) ==
    LET r == s.runs[i]
        name == r.command_name
        cfg == Cfg(name)
        remaining == SelectSeq(s.live[name], LAMBDA j : j # i)
    IN  IF r.state = RUNNING
        THEN s          \* raise ValueError: reported by the loop, nothing done
        ELSE IF Len(remaining) = Len(s.live[name])
        THEN s          \* duplicate completion callback
        ELSE
        LET s1 == [s EXCEPT
                     !.live[name] = remaining,
                     !.completed[name] = Append(@, i),
                     !.history[name] =
                         IF cfg.keep_history > 0
                         THEN TrimHistory(Append(@, i), cfg.keep_history)
                         ELSE @]
            s2 == TriggerWithCycleDetection(
                     s1, "command_" \o r.state \o ":" \o name, r.seen, i)
        IN  IF r.state \in {SUCCESS, FAILED}
            THEN TriggerWithCycleDetection(
                     s2, "command_finished:" \o name, r.seen, i)
            ELSE s2

(***************************************************************************)
(* LocalSubprocessExecutor, followed on one run.  e is the executor with   *)
(* its run: the RunResult, the child process, the monitor task, whether    *)
(* the run is in _processes and _tasks, the cancel_run calls in progress   *)
(* and the event loop's ready queue.                                       *)
(***************************************************************************)
\* RunResult.is_finalized
IsFinalized(r) == r.state \in Terminal

MonitorHandle == [kind |-> "monitor", caller |-> 0]
CallerHandle(k) == [kind |-> "caller", caller |-> k]

NoMonitor == [pc |-> "none", must_cancel |-> FALSE, wake |-> "none", sched |-> FALSE]

\* LocalSubprocessExecutor.__init__, and a RunResult handed to no one yet.
\* process: the monitor's local `process` is set.
NewExecutor(timeout) ==
    [result |-> NewRunResult("A", "go", <<>>),
     timeout |-> timeout,
     task |-> NoMonitor,
     proc |-> "none",
     process |-> FALSE,
     processes |-> FALSE,
     tasks |-> FALSE,
     callers |-> <<>>,
     ready |-> <<>>]

\* start_run: create_task(_monitor_process(...)); self._tasks[run_id] = task
StartRunIn(e) ==
    [e EXCEPT !.task = [NoMonitor EXCEPT !.pc = "start", !.sched = TRUE],
              !.tasks = TRUE,
              !.ready = Append(@, MonitorHandle)]

\* the monitor suspends at an await
MonitorSuspend(e, pc) == [e EXCEPT !.task = [NoMonitor EXCEPT !.pc = pc]]

\* the coroutines of ks, suspended, are made ready
WakeCallers(e, ks, what) ==
    [e EXCEPT !.callers = [k \in DOMAIN @ |->
                              IF k \in ks
                              THEN [@[k] EXCEPT !.wake = what, !.sched = TRUE]
                              ELSE @[k]],
              !.ready = @ \o SelectSeq([k \in DOMAIN e.callers |-> CallerHandle(k)],
                                       LAMBDA h : h.caller \in ks)]

\* the monitor task is done: the cancel_run calls awaiting it resume
MonitorDone(e) ==
    WakeCallers([e EXCEPT !.task = [NoMonitor EXCEPT !.pc = "done"]],
                {k \in DOMAIN e.callers : e.callers[k].pc \in {"await_task", "cl_gather"}},
                "ok")

\* finally: self._processes.pop(run_id, None); self._tasks.pop(run_id, None)
MonitorFinally(e) == MonitorDone([e EXCEPT !.processes = FALSE, !.tasks = FALSE])

\* except asyncio.CancelledError: _kill_process if the process has not
\* exited, then raise
MonitorOnCancelled(e) ==
    IF e.process /\ Alive(e.proc)
    THEN MonitorSuspend(e, "c_kill")
    ELSE MonitorFinally(e)

\* except asyncio.TimeoutError: mark_failed first, then _kill_process: kill()
\* and await wait(), or ProcessLookupError when the process is gone
MonitorOnTimeout(e) ==
    LET e1 == [e EXCEPT !.result = MarkFailed(@, "Command timed out", clock)]
    IN  IF Alive(e1.proc) THEN MonitorSuspend(e1, "to_kill") ELSE MonitorFinally(e1)

\* communicate() returned: mark_success for return code 0, else mark_failed
MonitorCompleted(e) ==
    MonitorFinally([e EXCEPT !.result =
        IF e.proc = "exit0" THEN MarkSuccess(@, clock)
        ELSE MarkFailed(@, "Command exited with code", clock)])

\* One step of _monitor_process.  A task cancelled before its first step
\* never enters the coroutine, so its finally clause does not run.  swallow:
\* wait_for returns the finished communicate() instead of raising
\* CancelledError (asyncio of Python 3.11).
MonitorProcess(e, swallow) ==
    LET t == e.task
        cancelled == t.must_cancel
    IN  CASE t.pc = "start" ->
                IF cancelled THEN MonitorDone(e) ELSE MonitorSuspend(e, "spawn")
          [] t.pc = "spawn" ->
                IF cancelled THEN MonitorOnCancelled(e)
                ELSE IF t.wake = "fail"
                THEN MonitorFinally([e EXCEPT !.result =
                                        MarkFailed(@, "spawn failed", clock)])
                ELSE LET e1 == [e EXCEPT !.process = TRUE, !.processes = TRUE,
                                         !.result = MarkRunning(@, clock)]
                     IN  IF Exited(e1.proc)
                         THEN [MonitorSuspend(e1, "communicate") EXCEPT
                                  !.task.sched = TRUE,
                                  !.ready = Append(@, MonitorHandle)]
                         ELSE MonitorSuspend(e1, "communicate")
          [] t.pc = "communicate" ->
                IF cancelled /\ ~(swallow /\ e.timeout /\ Exited(e.proc))
                THEN MonitorOnCancelled(e)
                ELSE IF Exited(e.proc) /\ (cancelled \/ t.wake # "timeout")
                THEN MonitorCompleted(e)
                ELSE MonitorOnTimeout(e)
          [] t.pc = "to_kill" ->
                IF cancelled THEN MonitorOnCancelled(e) ELSE MonitorFinally(e)
          [] t.pc = "c_kill" -> MonitorFinally(e)

\* a cancel_run call suspends at an await, or returns
CallerSuspend(e, k, pc) ==
    [e EXCEPT !.callers[k] = [@ EXCEPT !.pc = pc, !.wake = "none", !.sched = FALSE]]

CallerReturn(e, k) == CallerSuspend(e, k, "returned")

\* task.cancel(): CancelledError is thrown into the monitor at its next step
TaskCancel(e) ==
    [e EXCEPT !.task = [@ EXCEPT !.must_cancel = TRUE, !.sched = TRUE],
              !.ready = IF e.task.sched THEN @ ELSE Append(@, MonitorHandle)]

\* cancel_run, its end: result.mark_cancelled(comment or "Command cancelled"),
\* then the pops
CancelFinish(e, k) ==
    CallerReturn([e EXCEPT !.result = MarkCancelled(@, "Command cancelled", clock),
                           !.processes = FALSE,
                           !.tasks = FALSE], k)

\* cancel_run: if task and not task.done(): task.cancel(); await task
CancelTask(e, k) ==
    IF e.callers[k].task /\ e.task.pc # "done"
    THEN CallerSuspend(TaskCancel(e), k, "await_task")
    ELSE CancelFinish(e, k)

\* cancel_run whose not-found branch returns without marking the result
CancelEntryNotFoundUnmarked(e, k) ==
    IF IsFinalized(e.result) \/ (~e.processes /\ ~e.tasks)
    THEN CallerReturn(e, k)
    ELSE IF e.processes /\ Alive(e.proc)
    THEN CallerSuspend(e, k, "grace_wait")
    ELSE CancelTask(e, k)

\* cancel_run up to its first await: nothing for a finalized result;
\* mark_cancelled for a run the executor does not know; terminate() and
\* wait_for(process.wait(), grace) for a process that has not exited
CancelEntry(e, k) ==
    IF IsFinalized(e.result)
    THEN CallerReturn(e, k)
    ELSE IF ~e.processes /\ ~e.tasks
    THEN CallerReturn([e EXCEPT !.result =
            MarkCancelled(@, "Command cancelled (not found)", clock)], k)
    ELSE IF e.processes /\ Alive(e.proc)
    THEN CallerSuspend(e, k, "grace_wait")
    ELSE CancelTask(e, k)

\* cancel_run resumed: after the grace wait, read stdout for at most 0.5 s if
\* the process exited, _kill_process if it did not; then cancel the task
CancelRunStep(e, k) ==
    LET c == e.callers[k]
    IN  CASE c.pc = "grace_wait" ->
                IF c.wake = "timeout" /\ Alive(e.proc)
                THEN CallerSuspend(e, k, "kill_wait")
                ELSE IF c.wake = "timeout"
                THEN CancelTask(e, k)
                ELSE CallerSuspend(e, k, "read_out")
          [] c.pc \in {"read_out", "kill_wait"} -> CancelTask(e, k)
          [] c.pc = "await_task" -> CancelFinish(e, k)

\* the awaits of cleanup()
CleanupPcs == {"cl_kill", "cl_gather"}

\* cleanup, its end: self._processes.clear(); self._tasks.clear()
CleanupFinish(e, k) ==
    CallerSuspend([e EXCEPT !.processes = FALSE, !.tasks = FALSE], k, "cl_returned")

\* cleanup: if self._tasks: await asyncio.gather(*self._tasks.values(),
\* return_exceptions=True)
CleanupGather(e, k) ==
    IF e.tasks /\ e.task.pc # "done"
    THEN CallerSuspend(e, k, "cl_gather")
    ELSE CleanupFinish(e, k)

\* cleanup that marks the result of the run it stops
CleanupEntryMarks(e, k) ==
    IF ~e.processes /\ ~e.tasks
    THEN CallerSuspend(e, k, "cl_returned")
    ELSE
    LET e1 == IF e.tasks /\ e.task.pc # "done" THEN TaskCancel(e) ELSE e
        e2 == [e1 EXCEPT !.result =
                  IF IsFinalized(@) THEN @
                  ELSE MarkCancelled(@, "Command cancelled", clock)]
    IN  IF e2.processes /\ Alive(e2.proc)
        THEN CallerSuspend(e2, k, "cl_kill")
        ELSE CleanupGather(e2, k)

\* cleanup up to its first await: nothing when no process and no task is
\* tracked; task.cancel() for a monitor task that is not done; then
\* _kill_process for a process that has not exited
CleanupEntry(e, k) ==
    IF ~e.processes /\ ~e.tasks
    THEN CallerSuspend(e, k, "cl_returned")
    ELSE
    LET e1 == IF e.tasks /\ e.task.pc # "done" THEN TaskCancel(e) ELSE e
    IN  IF e1.processes /\ Alive(e1.proc)
        THEN CallerSuspend(e1, k, "cl_kill")
        ELSE CleanupGather(e1, k)

\* cleanup resumed: after process.wait() the gather, after the gather the end
CleanupStep(e, k) ==
    IF e.callers[k].pc = "cl_kill" THEN CleanupGather(e, k) ELSE CleanupFinish(e, k)

NoExecutor == NewExecutor(FALSE)

(***************************************************************************)
(* RunHandle: h is the handle with its result, _future, _watcher_task and  *)
(* the wait() calls made on it.                                            *)
(***************************************************************************)
\* RunHandle.__init__
NewHandle(result) ==
    [result |-> result,
     future |-> IF IsFinalized(result) THEN "done" ELSE "none",
     watcher |-> "none",
     waiters |-> <<>>]

\* wait(), first part: the future and the watcher are created on first use
LazyInit(h) ==
    IF h.future # "none" THEN h
    ELSE IF IsFinalized(h.result)
    THEN [h EXCEPT !.future = "done"]
    ELSE [h EXCEPT !.future = "pending", !.watcher = "polling"]

\* what a wait() call gets from the future once it is done or cancelled
Outcome(h, timeout) ==
    IF h.future = "done"
    THEN [timeout |-> timeout, pc |-> "returned", got |-> <<h.result>>]
    ELSE [timeout |-> timeout, pc |-> "cancelled_error", got |-> <<>>]

\* wait(timeout): await wait_for(self._future, timeout), or await self._future
WaitIn(h, timeout) ==
    LET h1 == LazyInit(h)
    IN  [h1 EXCEPT !.waiters = Append(@,
            IF h1.future = "pending"
            THEN [timeout |-> timeout, pc |-> "waiting", got |-> <<>>]
            ELSE Outcome(h1, timeout))]

\* _watch_completion once is_finalized is true: set_result unless done
WatchCompletion(h) ==
    [h EXCEPT !.watcher = "done",
              !.future = IF @ = "pending" THEN "done" ELSE @]

\* the timeout of wait_for expires: it cancels the future it awaits and
\* raises TimeoutError
WaitForTimeout(h, k) ==
    [h EXCEPT !.future = "cancelled",
              !.waiters[k] = [@ EXCEPT !.pc = "timeout_error"]]

NoHandle == NewHandle(NewRunResult("A", "go", <<>>))

(***************************************************************************)
(* ConcurrencyPolicy and ExecutionPolicy.  A decision is a NewRunDecision; *)
(* p holds the two arguments of decide() as the caller sees them after the *)
(* call, and what the call returned.                                       *)
(***************************************************************************)
NewRunDecision(allow, runs_to_cancel) ==
    [allow |-> allow, runs_to_cancel |-> runs_to_cancel]

\* decide that keeps one active run when it restarts
ConcurrencyPolicyDecideKeepsOne(cfg, active_runs) ==
    LET active_count == Len(active_runs)
    IN  IF cfg.max_concurrent = 0
        THEN NewRunDecision(TRUE, <<>>)
        ELSE IF active_count < cfg.max_concurrent
        THEN NewRunDecision(TRUE, <<>>)
        ELSE IF cfg.on_retrigger = "cancel_and_restart"
        THEN NewRunDecision(TRUE, Tail(active_runs))
        ELSE NewRunDecision(FALSE, <<>>)

\* ConcurrencyPolicy.decide
ConcurrencyPolicyDecide(cfg, active_runs) ==
    LET active_count == Len(active_runs)
    IN  IF cfg.max_concurrent = 0
        THEN NewRunDecision(TRUE, <<>>)
        ELSE IF active_count < cfg.max_concurrent
        THEN NewRunDecision(TRUE, <<>>)
        ELSE IF cfg.on_retrigger = "cancel_and_restart"
        THEN NewRunDecision(TRUE, active_runs)
        ELSE IF cfg.on_retrigger = "ignore"
        THEN NewRunDecision(FALSE, <<>>)
        ELSE NewRunDecision(FALSE, <<>>)

\* ExecutionPolicy.decide
ExecutionPolicyDecide(cfg, active_runs) ==
    LET active_count == Len(active_runs)
    IN  IF cfg.max_concurrent = 0
        THEN NewRunDecision(TRUE, <<>>)
        ELSE IF active_count < cfg.max_concurrent
        THEN NewRunDecision(TRUE, <<>>)
        ELSE IF cfg.on_retrigger = "cancel_and_restart"
        THEN NewRunDecision(TRUE, active_runs)
        ELSE IF cfg.on_retrigger = "ignore"
        THEN NewRunDecision(FALSE, <<>>)
        ELSE NewRunDecision(FALSE, <<>>)

\* policy.decide(config, active_runs) called with the arguments held in p:
\* neither branch assigns to config or active_runs, and runs_to_cancel is a
\* copy of the list
DecideIn(p, decision) == [p EXCEPT !.decision = <<decision>>]

NoPolicy ==
    [config |-> CommandConfig("A", <<>>, <<>>, 1, "ignore", 0, FALSE, TRUE),
     active_runs |-> <<>>,
     decision |-> <<>>]

(***************************************************************************)
(* The causal chain as the code holds it: _seen is a Python list, passed   *)
(* by reference, appended to and popped in place by trigger().  c.lists is *)
(* the heap of list objects, a reference is an index into it and 0 is      *)
(* None.  Runs, pending trigger tasks and the lists callers passed hold    *)
(* references; `made` is the content a holder was given when it got its    *)
(* list.  Runs complete in one step here: only the chain is followed.      *)
(***************************************************************************)
NoChains == [lists |-> <<>>, runs |-> <<>>, live |-> <<>>, ready |-> <<>>, args |-> <<>>]

\* a new list object with the given content; its reference is Len(lists)
Alloc(c, content) == [c EXCEPT !.lists = Append(@, content)]

\* _trigger_with_cycle_detection(event, result): create_task(trigger(event,
\* _seen=result._seen.copy())), or create_task(trigger(event)) for None.  A
\* task for an event nothing subscribes to returns at trigger()'s first check.
ChainEmit(c, event, i) ==
    IF ~HasHandler(event) THEN c
    ELSE IF c.runs[i].seen # 0
    THEN LET c1 == Alloc(c, c.lists[c.runs[i].seen])
         IN  [c1 EXCEPT !.ready = Append(@, [event |-> event, seen |-> Len(c1.lists),
                                             made |-> c.lists[c.runs[i].seen]])]
    ELSE [c EXCEPT !.ready = Append(@, [event |-> event, seen |-> 0, made |-> <<>>])]

\* run_command that stores the list it was passed instead of a copy
ChainRunCommandShared(c, name, event, ref) ==
    LET d == ShouldStartNewRun(Cfg(name), c.live[name])
    IN  IF ~d.start THEN c
        ELSE
        LET kept == ref # 0 /\ c.lists[ref] # <<>>
            r == [command_name |-> name, trigger_event |-> event,
                  seen |-> IF kept THEN ref ELSE 0,
                  made |-> IF kept THEN c.lists[ref] ELSE <<>>,
                  state |-> RUNNING]
            c2 == [c EXCEPT !.runs = Append(@, r)]
            c3 == ChainEmit(c2, "command_started:" \o name, Len(c2.runs))
        IN  [c3 EXCEPT !.live[name] = Append(@, Len(c2.runs))]

\* run_command(name, trigger_event=event, _seen=ref): the policy check, then
\* result._seen = _seen.copy() if _seen else None, the command_started
\* emission and the append to the live list.  c is left as it was when the
\* call raises ValueError.
ChainRunCommand(c, name, event, ref) ==
    LET d == ShouldStartNewRun(Cfg(name), c.live[name])
    IN  IF ~d.start THEN c
        ELSE
        LET kept == ref # 0 /\ c.lists[ref] # <<>>
            c1 == IF kept THEN Alloc(c, c.lists[ref]) ELSE c
            r == [command_name |-> name, trigger_event |-> event,
                  seen |-> IF kept THEN Len(c1.lists) ELSE 0,
                  made |-> IF kept THEN c.lists[ref] ELSE <<>>,
                  state |-> RUNNING]
            c2 == [c1 EXCEPT !.runs = Append(@, r)]
            c3 == ChainEmit(c2, "command_started:" \o name, Len(c2.runs))
        IN  [c3 EXCEPT !.live[name] = Append(@, Len(c2.runs))]

RECURSIVE ChainStartCommands(_, _, _, _)
\* trigger: for cmd in self._trigger_map.get(event_name, []): run_command(
\* cmd.name, trigger_event=event_name, _seen=_seen), ValueError caught
ChainStartCommands(c, cmds, event, ref) ==
    IF cmds = <<>> THEN c
    ELSE ChainStartCommands(ChainRunCommand(c, Head(cmds).name, event, ref),
                            Tail(cmds), event, ref)

\* trigger(event, _seen=ref): nothing to do; a new list for None; the cycle
\* check; _seen.append(event); the start loop; finally _seen.pop()
ChainTrigger(c, event, ref) ==
    IF ~HasHandler(event) THEN c
    ELSE
    LET c1 == IF ref = 0 THEN Alloc(c, <<>>) ELSE c
        r == IF ref = 0 THEN Len(c1.lists) ELSE ref
    IN  IF InSeq(event, c1.lists[r]) THEN c1
        ELSE
        LET c2 == [c1 EXCEPT !.lists[r] = Append(@, event)]
            c3 == ChainStartCommands(c2, TriggerMap(event), event, r)
        IN  [c3 EXCEPT !.lists[r] = SubSeq(@, 1, Len(@) - 1)]

\* _task_completed of a run that succeeded: out of the live list, then the
\* command_success and command_finished emissions
ChainTaskCompleted(c, i) ==
    LET name == c.runs[i].command_name
        c1 == [c EXCEPT !.runs[i].state = SUCCESS,
                        !.live[name] = SelectSeq(@, LAMBDA j : j # i)]
        c2 == ChainEmit(c1, "command_success:" \o name, i)
    IN  ChainEmit(c2, "command_finished:" \o name, i)

(***************************************************************************)
(* Configurations the runner is constructed with.                          *)
(***************************************************************************)
Restarter == CommandConfig("A", <<"go">>, <<"stop">>, 1, "cancel_and_restart", 2, FALSE, TRUE)
Ignorer == CommandConfig("A", <<"go">>, <<"stop">>, 1, "ignore", 1, TRUE, TRUE)
Pair == CommandConfig("A", <<"go">>, <<>>, 2, "ignore", 2, FALSE, TRUE)
Unlimited == CommandConfig("A", <<"go">>, <<"stop">>, 0, "ignore", 0, FALSE, TRUE)
Broken == CommandConfig("A", <<"go", "command_failed:A">>, <<>>, 1, "cancel_and_restart", 1, FALSE, FALSE)

Configurations == {<<Restarter>>, <<Ignorer>>, <<Pair>>, <<Unlimited>>, <<Broken>>}

ExternalEvents == {"go", "stop"}

\* Scenario 3 of the specification and test_run_command_cycle_detection_
\* still_works: a command subscribed to its own success, all else default.
Loop == CommandConfig("Loop", <<"go", "command_success:Loop">>, <<>>, 1, "cancel_and_restart", 1, FALSE, TRUE)

\* examples/advanced/05_cycle_detection.py, step 4: the diamond.
Build == CommandConfig("Build", <<"build">>, <<>>, 1, "cancel_and_restart", 1, FALSE, TRUE)
Test == CommandConfig("Test", <<"command_success:Build">>, <<>>, 1, "cancel_and_restart", 1, FALSE, TRUE)
Lint == CommandConfig("Lint", <<"command_success:Build">>, <<>>, 1, "cancel_and_restart", 1, FALSE, TRUE)
Report == CommandConfig("Report", <<"command_success:Test", "command_success:Lint">>, <<>>, 1, "cancel_and_restart", 1, FALSE, TRUE)
Diamond == <<Build, Test, Lint, Report>>

\* Spec stops creating runs at MaxRuns; the scenarios are bounded by their
\* external calls alone.
WithinBounds(s) == config \in Configurations => Len(s.runs) <= MaxRuns

NoCall == [op |-> "none", arg |-> "", error |-> "none", skipped |-> {}]

\* CommandRunner.__init__, then on_trigger for every callback of the registry
InitRunner(cfgs, registries) ==
    /\ config \in cfgs
    /\ runs = <<>>
    /\ tasks = <<>>
    /\ procs = <<>>
    /\ live = [n \in Names |-> <<>>]
    /\ history = [n \in Names |-> <<>>]
    /\ ready = <<>>
    /\ lastCall = NoCall
    /\ completed = [n \in Names |-> <<>>]
    /\ cancels = <<>>
    /\ replaced = <<>>
    /\ cycles = 0
    /\ clock = 1
    /\ callbacks \in registries
    /\ calls = <<>>
    /\ emitted = <<>>

\* a runner on its own: no executor or handle is in use
InitRegistered(cfgs, registries) ==
    /\ InitRunner(cfgs, registries)
    /\ executor = NoExecutor
    /\ handle = NoHandle
    /\ chains = NoChains
    /\ policy = NoPolicy

\* CommandRunner.__init__
InitWith(cfgs) == InitRegistered(cfgs, {<<>>})

Init == InitWith(Configurations)

(***************************************************************************)
(* API calls.                                                              *)
(***************************************************************************)
Returned(s, op, arg) ==
    /\ WithinBounds(s)
    /\ Commit(s)
    /\ lastCall' = IF s.error = "none" /\ s.skipped = {}
                   THEN NoCall
                   ELSE [op |-> op, arg |-> arg, error |-> s.error,
                         skipped |-> s.skipped]
    /\ UNCHANGED <<config, clock, callbacks, executor, handle, policy, chains>>

\* await runner.trigger(event)
Trigger(event) ==
    Returned(TriggerIn(Bundle, event, <<>>), "trigger", event)

\* runner.run_command(name)
RunCommand(name) ==
    Returned(RunCommandIn(Bundle, name, "", <<>>), "run_command", name)

\* runner.cancel_command(name): self._live_runs.get(name, [])
CancelCommand(name) ==
    /\ live[name] # <<>>
    /\ Returned(CancelRuns(Bundle, live[name]), "cancel_command", name)

\* runner.cancel_all()
RECURSIVE CancelAllIn(_, _)
CancelAllIn(s, names) ==
    IF names = {} THEN s
    ELSE LET n == CHOOSE x \in names : TRUE
         IN  CancelAllIn(CancelRuns(s, s.live[n]), names \ {n})

CancelAll ==
    /\ \E n \in Names : live[n] # <<>>
    /\ Returned(CancelAllIn(Bundle, Names), "cancel_all", "")

(***************************************************************************)
(* The event loop runs the callback at the head of the ready queue.        *)
(***************************************************************************)
Popped == [Bundle EXCEPT !.ready = Tail(@)]

Ran(s) ==
    /\ WithinBounds(s)
    /\ Commit(s)
    /\ lastCall' = NoCall
    /\ UNCHANGED <<config, clock, callbacks, executor, handle, policy, chains>>

\* a task created by _trigger_with_cycle_detection runs trigger() to its end
RunTriggerTask ==
    /\ ready # <<>>
    /\ Head(ready).kind = "trigger"
    /\ Returned(TriggerIn(Popped, Head(ready).event, Head(ready).seen),
                "trigger_task", Head(ready).event)

\* an _execute task runs to its next await
RunExecuteStep ==
    /\ ready # <<>>
    /\ Head(ready).kind = "step"
    /\ \E swallow \in BOOLEAN : Ran(ExecuteStep(Popped, Head(ready).run, swallow))

\* the done callback of an _execute task
RunDoneCallback ==
    /\ ready # <<>>
    /\ Head(ready).kind = "done"
    /\ Ran(TaskCompleted(Popped, Head(ready).run))

(***************************************************************************)
(* The environment: subprocess creation, the child process, timers.  A     *)
(* child is followed until the task that started it is done; what it does  *)
(* after that, nothing in the runner observes.                             *)
(***************************************************************************)
Waiting(i, pcs) ==
    /\ tasks[i].pc \in pcs
    /\ ~tasks[i].sched

Wake(s, i, what) ==
    [s EXCEPT !.tasks[i] = [@ EXCEPT !.wake = what, !.sched = TRUE],
              !.ready = Append(@, StepHandle(i))]

\* asyncio.create_subprocess_shell returns a process, or raises
SpawnDone(i, ok) ==
    /\ Waiting(i, {"spawn"})
    /\ Ran(IF ok THEN Wake([Bundle EXCEPT !.procs[i] = "running"], i, "ok")
                 ELSE Wake(Bundle, i, "fail"))

\* the child closes stdout and stderr and keeps running
ProcCloseOutput(i) ==
    /\ procs[i] = "running"
    /\ tasks[i].pc # "done"
    /\ LET s == [Bundle EXCEPT !.procs[i] = "eof"]
       IN  Ran(IF Waiting(i, {"to_read", "c_read"}) THEN Wake(s, i, "ok") ELSE s)

\* the child exits with return code 0 (ok) or not
ProcExit(i, ok) ==
    /\ Alive(procs[i])
    /\ tasks[i].pc # "done"
    /\ LET s == [Bundle EXCEPT !.procs[i] = IF ok THEN "exit0" ELSE "exit1"]
       IN  Ran(IF Waiting(i, {"communicate", "to_read", "c_read", "to_wait", "c_wait"})
               THEN Wake(s, i, "ok") ELSE s)

\* wait_for(proc.communicate(), timeout=cmd.timeout_secs) times out
TimeoutFires(i) ==
    /\ Waiting(i, {"communicate"})
    /\ Cfg(runs[i].command_name).timeout
    /\ Ran(Wake(Bundle, i, "timeout"))

\* asyncio.sleep(grace) in _terminate_process is over
GraceElapsed(i) ==
    /\ Waiting(i, {"to_sleep", "c_sleep"})
    /\ Ran(Wake(Bundle, i, "ok"))

RunIds == DOMAIN runs

RunsOf(n) == {i \in RunIds : runs[i].command_name = n}

ApiTrigger == \E e \in ExternalEvents : Trigger(e)
ApiRunCommand == \E n \in Names : RunCommand(n)
ApiCancelCommand == \E n \in Names : CancelCommand(n)
EnvSpawnDone == \E i \in RunIds : \E ok \in BOOLEAN : SpawnDone(i, ok)
EnvProcCloseOutput == \E i \in RunIds : ProcCloseOutput(i)
EnvProcExit == \E i \in RunIds : \E ok \in BOOLEAN : ProcExit(i, ok)
EnvTimeoutFires == \E i \in RunIds : TimeoutFires(i)
EnvGraceElapsed == \E i \in RunIds : GraceElapsed(i)

Next ==
    \/ ApiTrigger
    \/ ApiRunCommand
    \/ ApiCancelCommand
    \/ CancelAll
    \/ RunTriggerTask
    \/ RunExecuteStep
    \/ RunDoneCallback
    \/ EnvSpawnDone
    \/ EnvProcCloseOutput
    \/ EnvProcExit
    \/ EnvTimeoutFires
    \/ EnvGraceElapsed

Spec == Init /\ [][Next]_vars

(***************************************************************************)
(* The scenarios: every process is created and exits with return code 0.   *)
(***************************************************************************)
SpawnSucceeds == \E i \in RunIds : SpawnDone(i, TRUE)
ProcSucceeds == \E i \in RunIds : ProcExit(i, TRUE)

ExternalStarts == {i \in RunIds : runs[i].trigger_event \in {"go", "run_command:Loop"}}

\* await runner.trigger("go"), at most MaxStarts external starts
LoopTrigger ==
    /\ Cardinality(ExternalStarts) < MaxStarts
    /\ Trigger("go")

\* runner.run_command("Loop")
LoopRunCommand ==
    /\ Cardinality(ExternalStarts) < MaxStarts
    /\ RunCommand("Loop")

NextLoop ==
    \/ LoopTrigger
    \/ LoopRunCommand
    \/ RunTriggerTask
    \/ RunExecuteStep
    \/ RunDoneCallback
    \/ SpawnSucceeds
    \/ ProcSucceeds

SpecLoop == InitWith({<<Loop>>}) /\ [][NextLoop]_vars

\* await orchestrator.trigger("build"), once
DiamondTrigger ==
    /\ runs = <<>>
    /\ Trigger("build")

NextDiamond ==
    \/ DiamondTrigger
    \/ RunTriggerTask
    \/ RunExecuteStep
    \/ RunDoneCallback
    \/ SpawnSucceeds
    \/ ProcSucceeds

SpecDiamond == InitWith({Diamond}) /\ [][NextDiamond]_vars

(***************************************************************************)
(* Dispatch: two commands on one event, with callbacks.  Gate ignores a    *)
(* start at its limit and follows its own success, which closes a cycle;   *)
(* Worker is cancelled and started by the same event.                      *)
(***************************************************************************)
Gate == CommandConfig("A", <<"go", "command_success:A">>, <<>>, 1, "ignore", 2, FALSE, TRUE)
Worker == CommandConfig("B", <<"go">>, <<"go">>, 2, "cancel_and_restart", 2, FALSE, TRUE)

\* runner.on_trigger(event, cb): cb is a function or a coroutine function,
\* and raises or not
Callback(event, kind) == [event |-> event, kind |-> kind]

Registries ==
    { <<>>,
      <<Callback("go", "sync_raises"), Callback("go", "sync")>>,
      <<Callback("go", "async_raises"), Callback("go", "sync_raises"),
        Callback("go", "async")>>,
      <<Callback("command_started:B", "sync"), Callback("command_cancelled:B", "sync"),
        Callback("command_success:B", "async")>>,
      <<Callback("command_started:A", "sync_raises"),
        Callback("command_finished:A", "sync")>> }

\* await runner.trigger("go"), at most MaxStarts times
DispatchTrigger ==
    /\ Cardinality(RunsOf("B")) < MaxStarts
    /\ Trigger("go")

\* a task created for an async callback runs; what it does or raises stays
\* in the task
RunCallbackTask ==
    /\ ready # <<>>
    /\ Head(ready).kind = "callback"
    /\ Ran(Popped)

NextDispatch ==
    \/ DispatchTrigger
    \/ RunTriggerTask
    \/ RunExecuteStep
    \/ RunDoneCallback
    \/ RunCallbackTask
    \/ SpawnSucceeds
    \/ ProcSucceeds

SpecDispatch == InitRegistered({<<Gate, Worker>>}, Registries) /\ [][NextDispatch]_vars

(***************************************************************************)
(* RunResult on its own: one record, any sequence of mark_* calls, the     *)
(* clock advancing between them.                                           *)
(***************************************************************************)
\* RunResult(trigger_event="go") with command_name set, outside any runner
InitRunResult ==
    /\ config = <<Restarter>>
    /\ runs = <<NewRunResult("A", "go", <<>>)>>
    /\ tasks = <<>>
    /\ procs = <<>>
    /\ live = [n \in Names |-> <<>>]
    /\ history = [n \in Names |-> <<>>]
    /\ ready = <<>>
    /\ lastCall = NoCall
    /\ completed = [n \in Names |-> <<>>]
    /\ cancels = <<>>
    /\ replaced = <<>>
    /\ cycles = 0
    /\ clock = 1
    /\ callbacks = <<>>
    /\ calls = <<>>
    /\ emitted = <<>>
    /\ executor = NoExecutor
    /\ handle = NoHandle
    /\ chains = NoChains
    /\ policy = NoPolicy

Called(r) ==
    /\ runs' = [runs EXCEPT ![1] = r]
    /\ UNCHANGED <<config, tasks, procs, live, history, ready, lastCall,
                   completed, cancels, replaced, cycles, clock,
                   callbacks, calls, emitted, executor, handle, policy, chains>>

CallMarkRunning == Called(MarkRunning(runs[1], clock))
CallMarkSuccess == Called(MarkSuccess(runs[1], clock))
CallMarkFailed == \E err \in {"boom", "bang"} : Called(MarkFailed(runs[1], err, clock))
CallMarkCancelled ==
    \E reason \in {NoError, "user"} : Called(MarkCancelled(runs[1], reason, clock))

Tick ==
    /\ clock < MaxClock
    /\ clock' = clock + 1
    /\ UNCHANGED <<config, runs, tasks, procs, live, history, ready, lastCall,
                   completed, cancels, replaced, cycles,
                   callbacks, calls, emitted, executor, handle, policy, chains>>

NextRunResult ==
    \/ CallMarkRunning
    \/ CallMarkSuccess
    \/ CallMarkFailed
    \/ CallMarkCancelled
    \/ Tick

SpecRunResult == InitRunResult /\ [][NextRunResult]_vars

(***************************************************************************)
(* LocalSubprocessExecutor on its own: start_run and cancel_run calls, the *)
(* event loop, the child process and the timers.                           *)
(***************************************************************************)
MaxCallers == 2

RunnerUnchanged ==
    UNCHANGED <<config, runs, tasks, procs, live, history, ready, lastCall,
                completed, cancels, replaced, cycles, clock, callbacks, calls,
                emitted>>

InitExecutor ==
    /\ InitRunner({<<Restarter>>}, {<<>>})
    /\ executor \in {NewExecutor(timeout) : timeout \in BOOLEAN}
    /\ handle = NoHandle
    /\ chains = NoChains
    /\ policy = NoPolicy

ExecutorStep(e) ==
    /\ executor' = e
    /\ RunnerUnchanged
    /\ UNCHANGED <<handle, policy, chains>>

\* await executor.start_run(result, resolved)
StartRun ==
    /\ executor.task.pc = "none"
    /\ executor.result.state = PENDING
    /\ ExecutorStep(StartRunIn(executor))

\* await executor.cancel_run(result): the call runs to its first await
CancelRun ==
    /\ Len(executor.callers) < MaxCallers
    /\ LET c == [pc |-> "entry", process |-> executor.processes,
                 task |-> executor.tasks, wake |-> "none", sched |-> FALSE,
                 cleanup |-> FALSE]
           e == [executor EXCEPT !.callers = Append(@, c)]
       IN  ExecutorStep(CancelEntry(e, Len(e.callers)))

ExecutorPopped == [executor EXCEPT !.ready = Tail(@)]

\* the monitor task runs to its next await
RunMonitorStep ==
    /\ executor.ready # <<>>
    /\ Head(executor.ready).kind = "monitor"
    /\ \E swallow \in BOOLEAN : ExecutorStep(MonitorProcess(ExecutorPopped, swallow))

\* a cancel_run call runs to its next await
RunCancelStep ==
    /\ executor.ready # <<>>
    /\ Head(executor.ready).kind = "caller"
    /\ executor.callers[Head(executor.ready).caller].pc \notin CleanupPcs
    /\ ExecutorStep(CancelRunStep(ExecutorPopped, Head(executor.ready).caller))

MonitorWaiting(pcs) ==
    /\ executor.task.pc \in pcs
    /\ ~executor.task.sched

WakeMonitor(e, what) ==
    [e EXCEPT !.task = [@ EXCEPT !.wake = what, !.sched = TRUE],
              !.ready = Append(@, MonitorHandle)]

CallersWaiting(pcs) ==
    {k \in DOMAIN executor.callers :
        executor.callers[k].pc \in pcs /\ ~executor.callers[k].sched}

\* asyncio.create_subprocess_shell returns a process, or raises
ExecutorSpawnDone ==
    /\ MonitorWaiting({"spawn"})
    /\ \E ok \in BOOLEAN :
          ExecutorStep(IF ok THEN WakeMonitor([executor EXCEPT !.proc = "running"], "ok")
                       ELSE WakeMonitor(executor, "fail"))

\* the child exits, by itself or on a signal: communicate() and every
\* process.wait() complete, in either order
ExecutorProcExit ==
    /\ Alive(executor.proc)
    /\ \E ok, monitorFirst \in BOOLEAN :
          LET e == [executor EXCEPT !.proc = IF ok THEN "exit0" ELSE "exit1"]
              ks == CallersWaiting({"grace_wait", "kill_wait", "cl_kill"})
              m == MonitorWaiting({"communicate", "to_kill", "c_kill"})
          IN  ExecutorStep(
                IF ~m THEN WakeCallers(e, ks, "ok")
                ELSE IF monitorFirst
                THEN WakeCallers(WakeMonitor(e, "ok"), ks, "ok")
                ELSE WakeMonitor(WakeCallers(e, ks, "ok"), "ok"))

\* wait_for(process.communicate(), timeout=resolved.timeout_secs) times out
ExecutorTimeoutFires ==
    /\ executor.timeout
    /\ MonitorWaiting({"communicate"})
    /\ ExecutorStep(WakeMonitor(executor, "timeout"))

\* wait_for(process.wait(), timeout=self._cancel_grace_period) times out
ExecutorGraceElapsed ==
    \E k \in CallersWaiting({"grace_wait"}) :
        ExecutorStep(WakeCallers(executor, {k}, "timeout"))

\* wait_for(process.stdout.read(), timeout=0.5) returns or times out
ExecutorReadDone ==
    \E k \in CallersWaiting({"read_out"}) :
        ExecutorStep(WakeCallers(executor, {k}, "ok"))

NextExecutor ==
    \/ StartRun
    \/ CancelRun
    \/ RunMonitorStep
    \/ RunCancelStep
    \/ ExecutorSpawnDone
    \/ ExecutorProcExit
    \/ ExecutorTimeoutFires
    \/ ExecutorGraceElapsed
    \/ ExecutorReadDone

SpecExecutor == InitExecutor /\ [][NextExecutor]_vars

(***************************************************************************)
(* The executor with its shutdown: cleanup() is called at most once.       *)
(***************************************************************************)
CleanupCalled == \E k \in DOMAIN executor.callers : executor.callers[k].cleanup

\* await executor.cleanup(): the call runs to its first await
Cleanup ==
    /\ Len(executor.callers) < MaxCallers
    /\ ~CleanupCalled
    /\ LET c == [pc |-> "cl_entry", process |-> executor.processes,
                 task |-> executor.tasks, wake |-> "none", sched |-> FALSE,
                 cleanup |-> TRUE]
           e == [executor EXCEPT !.callers = Append(@, c)]
       IN  ExecutorStep(CleanupEntry(e, Len(e.callers)))

\* the cleanup call runs to its next await
RunCleanupStep ==
    /\ executor.ready # <<>>
    /\ Head(executor.ready).kind = "caller"
    /\ executor.callers[Head(executor.ready).caller].pc \in CleanupPcs
    /\ ExecutorStep(CleanupStep(ExecutorPopped, Head(executor.ready).caller))

NextCleanup ==
    \/ NextExecutor
    \/ Cleanup
    \/ RunCleanupStep

SpecCleanup == InitExecutor /\ [][NextCleanup]_vars

(***************************************************************************)
(* RunHandle on its own: wait() calls, the watcher task, the timers, and   *)
(* the run being finalized by its executor.                                *)
(***************************************************************************)
MaxWaiters == 3

InitHandle ==
    /\ InitRunner({<<Restarter>>}, {<<>>})
    /\ executor = NoExecutor
    /\ handle \in {NewHandle(NewRunResult("A", "go", <<>>)),
                    NewHandle(MarkSuccess(NewRunResult("A", "go", <<>>), clock))}
    /\ policy = NoPolicy
    /\ chains = NoChains

HandleStep(h) ==
    /\ handle' = h
    /\ RunnerUnchanged
    /\ UNCHANGED <<executor, policy, chains>>

\* await handle.wait(timeout)
Wait ==
    /\ Len(handle.waiters) < MaxWaiters
    /\ \E timeout \in BOOLEAN : HandleStep(WaitIn(handle, timeout))

\* the watcher wakes from its sleep and finds the result finalized
RunWatcher ==
    /\ handle.watcher = "polling"
    /\ IsFinalized(handle.result)
    /\ HandleStep(WatchCompletion(handle))

\* the timeout of one wait(timeout) call expires before the future is done
WaitTimesOut ==
    \E k \in DOMAIN handle.waiters :
        /\ handle.waiters[k].timeout
        /\ handle.waiters[k].pc = "waiting"
        /\ handle.future = "pending"
        /\ HandleStep(WaitForTimeout(handle, k))

\* a wait() call resumes when the future it awaits is done or cancelled
WaiterResumes ==
    \E k \in DOMAIN handle.waiters :
        /\ handle.waiters[k].pc = "waiting"
        /\ handle.future \in {"done", "cancelled"}
        /\ HandleStep([handle EXCEPT !.waiters[k] =
                          Outcome(handle, handle.waiters[k].timeout)])

\* the executor marks the result: mark_running, then one of the terminal marks
ResultMarked ==
    /\ ~IsFinalized(handle.result)
    /\ \E r \in {MarkRunning(handle.result, clock), MarkSuccess(handle.result, clock),
                   MarkFailed(handle.result, "boom", clock),
                   MarkCancelled(handle.result, NoError, clock)} :
          /\ r # handle.result
          /\ HandleStep([handle EXCEPT !.result = r])

NextHandle ==
    \/ Wait
    \/ RunWatcher
    \/ WaitTimesOut
    \/ WaiterResumes
    \/ ResultMarked

SpecHandle == InitHandle /\ [][NextHandle]_vars

(***************************************************************************)
(* Debounce: a command with debounce_in_ms set, started again and again    *)
(* while the clock advances.                                               *)
(***************************************************************************)
DebounceTicks == 2

Debounced == [CommandConfig("A", <<"go">>, <<>>, 0, "ignore", 2, FALSE, TRUE) EXCEPT !.debounce_in_ms = DebounceTicks]

\* runner.run_command("A") or await runner.trigger("go")
DebounceStart ==
    /\ Len(runs) < MaxRuns
    /\ \/ RunCommand("A")
       \/ Trigger("go")

NextDebounce ==
    \/ DebounceStart
    \/ Tick
    \/ RunExecuteStep
    \/ RunDoneCallback
    \/ SpawnSucceeds
    \/ ProcSucceeds

SpecDebounce == InitWith({<<Debounced>>}) /\ [][NextDebounce]_vars

(***************************************************************************)
(* The self-subscribing command with loop_detection switched off.          *)
(***************************************************************************)
LoopUnchecked == [Loop EXCEPT !.loop_detection = FALSE]

SpecLoopUnchecked == InitWith({<<LoopUnchecked>>}) /\ [][NextLoop]_vars

(***************************************************************************)
(* The policies on their own: decide() is called for every validated       *)
(* max_concurrent up to MaxLimit and both on_retrigger values, on lists of *)
(* up to MaxActive active runs.                                            *)
(***************************************************************************)
MaxLimit == 2
MaxActive == 3

InitPolicy ==
    /\ InitRunner({<<Restarter>>}, {<<>>})
    /\ executor = NoExecutor
    /\ handle = NoHandle
    /\ chains = NoChains
    /\ policy \in
          {[NoPolicy EXCEPT
               !.config = CommandConfig("A", <<"go">>, <<>>, m, o, 0, FALSE, TRUE)] :
             m \in 0..MaxLimit, o \in {"cancel_and_restart", "ignore"}}

PolicyStep(p) ==
    /\ policy' = p
    /\ RunnerUnchanged
    /\ UNCHANGED <<executor, handle, chains>>

\* ConcurrencyPolicy().decide(config, active_runs)
CallConcurrencyDecide ==
    PolicyStep(DecideIn(policy,
        ConcurrencyPolicyDecide(policy.config, policy.active_runs)))

\* ExecutionPolicy().decide(config, active_runs)
CallExecutionDecide ==
    PolicyStep(DecideIn(policy,
        ExecutionPolicyDecide(policy.config, policy.active_runs)))

\* the caller's list of active runs gains a run
RunBecomesActive ==
    /\ Len(policy.active_runs) < MaxActive
    /\ \E i \in 1..MaxActive :
          /\ \A k \in DOMAIN policy.active_runs : policy.active_runs[k] # i
          /\ PolicyStep([policy EXCEPT !.active_runs = Append(@, i)])

\* the caller's list of active runs loses a run
RunBecomesInactive ==
    \E i \in 1..MaxActive :
        /\ \E k \in DOMAIN policy.active_runs : policy.active_runs[k] = i
        /\ PolicyStep([policy EXCEPT
               !.active_runs = SelectSeq(@, LAMBDA j : j # i)])

NextPolicy ==
    \/ CallConcurrencyDecide
    \/ CallExecutionDecide
    \/ RunBecomesActive
    \/ RunBecomesInactive

SpecPolicy == InitPolicy /\ [][NextPolicy]_vars

(***************************************************************************)
(* The causal chains on their own: two commands started by one event, each *)
(* following the other's success.  Callers pass no list, or a list of       *)
(* their own.                                                              *)
(***************************************************************************)
MaxChainCalls == 1

Ping == CommandConfig("A", <<"go", "command_success:B">>, <<>>, 0, "ignore", 0, FALSE, TRUE)
Pong == CommandConfig("B", <<"go", "command_success:A">>, <<>>, 0, "ignore", 0, FALSE, TRUE)

InitChain ==
    /\ InitRunner({<<Ping, Pong>>}, {<<>>})
    /\ executor = NoExecutor
    /\ handle = NoHandle
    /\ policy = NoPolicy
    /\ chains = [NoChains EXCEPT !.live = [n \in {"A", "B"} |-> <<>>]]

ChainStep(c) ==
    /\ chains' = c
    /\ RunnerUnchanged
    /\ UNCHANGED <<executor, handle, policy>>

\* await runner.trigger("go"), or await runner.trigger("go", _seen=given)
\* with a list of the caller
ChainExternalTrigger ==
    /\ Len(chains.args) < MaxChainCalls
    /\ \E given \in {<<>>, <<"x">>, <<"go">>}, passed \in BOOLEAN :
          LET c1 == IF passed THEN Alloc(chains, given) ELSE chains
              ref == IF passed THEN Len(c1.lists) ELSE 0
              c2 == ChainTrigger(c1, "go", ref)
          IN  ChainStep([c2 EXCEPT !.args =
                            Append(@, [ref |-> ref, made |-> given])])

\* a task created by _trigger_with_cycle_detection runs trigger() to its end
ChainRunTask ==
    /\ chains.ready # <<>>
    /\ LET t == Head(chains.ready)
       IN  ChainStep(ChainTrigger([chains EXCEPT !.ready = Tail(@)], t.event, t.seen))

\* the execution task of a live run ends in success and its done callback runs
ChainRunEnds ==
    \E i \in DOMAIN chains.runs :
        /\ chains.runs[i].state = RUNNING
        /\ ChainStep(ChainTaskCompleted(chains, i))

NextChain ==
    \/ ChainExternalTrigger
    \/ ChainRunTask
    \/ ChainRunEnds

SpecChain == InitChain /\ [][NextChain]_vars

(***************************************************************************)
(* Queries.  A returned RunResult is identified by its run id; a sequence  *)
(* of length 0 stands for None.                                            *)
(***************************************************************************)
\* CommandRunner.get_result(name): latest = live first, then history
GetResult(name) ==
    IF live[name] # <<>> THEN <<live[name][Len(live[name])]>>
    ELSE IF history[name] # <<>> THEN <<history[name][Len(history[name])]>>
    ELSE <<>>

\* CommandRunner.get_history(name): self._history[name].copy()
GetHistory(name) == history[name]

(***************************************************************************)
(* Properties.                                                             *)
(***************************************************************************)
IsLive(i) == InSeq(i, live[runs[i].command_name])

\* the task of run i is done and its done callback has run
Settled(i) ==
    /\ tasks[i].pc = "done"
    /\ \A k \in DOMAIN ready : ready[k] # DoneHandle(i)

\* C1: for every command with max_concurrent > 0, in every reachable state,
\* the live list holds at most max_concurrent runs.
LiveWithinLimit ==
    \A n \in Names :
        Cfg(n).max_concurrent > 0 => Len(live[n]) <= Cfg(n).max_concurrent

\* C2: a run is in its command's live list if and only if it is not finalized
\* (its state is none of SUCCESS, FAILED, CANCELLED).
LiveIffNotFinalized ==
    \A i \in RunIds : IsLive(i) <=> runs[i].state \notin Terminal

\* the last k elements of seq
LastOf(seq, k) ==
    [j \in 1..(IF Len(seq) < k THEN Len(seq) ELSE k) |->
        seq[j + (IF Len(seq) < k THEN 0 ELSE Len(seq) - k)]]

MarkAfterTerminalIsNoOp ==
    [][runs[1].state \in Terminal =>
          /\ runs'[1].state = runs[1].state
          /\ runs'[1].success = runs[1].success
          /\ runs'[1].error = runs[1].error
          /\ runs'[1].end_time = runs[1].end_time]_vars

\* C5: the first finalization wins: a run that is FAILED or SUCCESS is never
\* turned into CANCELLED by a cancel request racing with it.
FirstFinalizationWins ==
    [][\A i \in RunIds :
          runs[i].state \in {SUCCESS, FAILED} => runs'[i].state # CANCELLED]_vars

\* C6: a run cancelled more than once ends finalized exactly once, CANCELLED
\* (or in the terminal state that won the race), and out of the live list.
RepeatedCancelConverges ==
    \A i \in RunIds :
        (cancels[i] >= 2 /\ Settled(i)) =>
            /\ runs[i].state \in Terminal
            /\ runs[i].nfinal = 1
            /\ ~IsLive(i)

\* C7: every incumbent that a cancel_and_restart retrigger cancels before it
\* has finished finalizes CANCELLED and leaves the live list to the new run.
RestartCancelsIncumbents ==
    \A i \in RunIds :
        (replaced[i] /\ Settled(i)) =>
            /\ runs[i].state = CANCELLED
            /\ ~IsLive(i)

AtLimit(n) ==
    /\ Cfg(n).max_concurrent > 0
    /\ Len(live[n]) >= Cfg(n).max_concurrent

\* C8: a start request (run_command, or a trigger the command subscribes to)
\* for an `ignore` command at its limit is rejected: run_command raises,
\* trigger skips the command; no run is created and the incumbents, their
\* tasks and the live list stay as they were.
IgnoreAtLimitRejects ==
    [][\A n \in Names :
          (Cfg(n).on_retrigger = "ignore" /\ AtLimit(n)) =>
              /\ RunCommand(n) =>
                    /\ lastCall'.error = "ValueError"
                    /\ <<runs, tasks, live, cancels, ready>>' =
                           <<runs, tasks, live, cancels, ready>>
              /\ (\E e \in ExternalEvents : InSeq(e, Cfg(n).triggers) /\ Trigger(e)) =>
                    /\ n \in lastCall'.skipped
                    /\ <<runs, live>>' = <<runs, live>>
                    /\ \A i \in RunsOf(n) : cancels'[i] = cancels[i]]_vars

\* C8 witness: run_command was rejected with the command at its limit
IgnoredAtLimit ==
    \E n \in Names :
        /\ Cfg(n).on_retrigger = "ignore"
        /\ AtLimit(n)
        /\ lastCall.op = "run_command"
        /\ lastCall.error = "ValueError"

\* C9: a command subscribed to its own success event runs once per external
\* start: no run is started by the re-entry through command_success:Loop.
LoopRunsOncePerStart ==
    Len(runs) <= Cardinality(ExternalStarts)

\* the single trigger("build") has been fully processed
DiamondSettled ==
    /\ runs # <<>>
    /\ ready = <<>>
    /\ \A i \in RunIds : tasks[i].pc = "done"

\* C10 as claimed: after trigger("build"), Build, Test, Lint and Report have
\* exactly one run each.
DiamondOneRunEach ==
    DiamondSettled => \A n \in Names : Cardinality(RunsOf(n)) = 1

\* C10 as amended: Build, Test and Lint have exactly one run each, and Report
\* has exactly two, one started by command_success:Test and one by
\* command_success:Lint.
DiamondReportPerBranch ==
    /\ \A n \in {"Build", "Test", "Lint"} : Cardinality(RunsOf(n)) <= 1
    /\ Cardinality(RunsOf("Report")) <= 2
    /\ DiamondSettled =>
          /\ \A n \in {"Build", "Test", "Lint"} : Cardinality(RunsOf(n)) = 1
          /\ Cardinality(RunsOf("Report")) = 2
          /\ {runs[i].trigger_event : i \in RunsOf("Report")} =
                 {"command_success:Test", "command_success:Lint"}

\* C10 witness: the diamond has settled with its second Report run
DiamondReportTwice ==
    /\ DiamondSettled
    /\ Cardinality(RunsOf("Report")) = 2

NoRepeat(seq) == \A j, k \in DOMAIN seq : seq[j] = seq[k] => j = k

TerminalEvents(i) ==
    SelectSeq(emitted[i],
              LAMBDA e : e # "command_started:" \o runs[i].command_name)

\* C12: a finalized run emits exactly one command_<state>:<name> event, the
\* one of its terminal state, followed by command_finished:<name> if and only
\* if that state is SUCCESS or FAILED; before its completion it emits none.
LifecycleEventsMatchState ==
    \A i \in RunIds :
        LET n == runs[i].command_name
            own == "command_" \o runs[i].state \o ":" \o n
        IN  TerminalEvents(i) =
                IF Settled(i) /\ runs[i].state \in {SUCCESS, FAILED}
                THEN <<own, "command_finished:" \o n>>
                ELSE IF Settled(i) /\ runs[i].state = CANCELLED
                THEN <<own>>
                ELSE <<>>

\* C12 witness: a cancelled run has completed and emitted its event
CancelledEventEmitted ==
    \E i \in RunIds :
        /\ Settled(i)
        /\ runs[i].state = CANCELLED
        /\ TerminalEvents(i) # <<>>

StartedEvent(i) == "command_started:" \o runs[i].command_name

\* C13: command_started:<name> of a run is emitted before any terminal
\* lifecycle event of that run, and its dispatch is queued ahead of theirs.
StartedBeforeTerminal ==
    \A i \in RunIds :
        /\ emitted[i] # <<>> => emitted[i][1] = StartedEvent(i)
        /\ \A j, k \in DOMAIN ready :
               (/\ ready[j] = TriggerHandle(StartedEvent(i), runs[i].seen, i)
                /\ ready[k].kind = "trigger"
                /\ ready[k].run = i
                /\ ready[k].event # StartedEvent(i)) => j < k

\* C13 witness: a run cancelled before its first step has emitted
\* command_started and then command_cancelled, both with a callback registered
CancelledAfterStarted ==
    \E i \in RunIds :
        /\ procs[i] = "none"
        /\ emitted[i] = <<StartedEvent(i), "command_cancelled:" \o runs[i].command_name>>
        /\ HasHandler(emitted[i][1])
        /\ HasHandler(emitted[i][2])

\* what one dispatch of event does, seen from the state before and after
DispatchOrder(event) ==
    /\ \A i \in RunIds :
           (IsLive(i) /\ InSeq(Cfg(runs[i].command_name), CancelTriggerMap(event))) =>
               /\ cancels'[i] >= 1
               /\ tasks'[i].pc = "done" \/ tasks'[i].must_cancel
    /\ \A j \in DOMAIN runs' \ RunIds :
           /\ cancels'[j] = 0
           /\ ~tasks'[j].must_cancel
    /\ \A k \in DOMAIN calls' : calls'[k].nruns = Len(runs')

\* C14: one dispatch first cancels the live runs of the commands that list
\* the event in cancel_on_triggers, then starts the commands that list it
\* in triggers, then invokes the callbacks: a run it starts is not cancelled
\* by it, and every callback is called with the new runs already started.
CancelThenStartThenCallbacks ==
    [][/\ DispatchTrigger => DispatchOrder("go")
       /\ RunTriggerTask => DispatchOrder(Head(ready).event)]_vars

\* C14 witness: one dispatch cancelled a run, started another of the same
\* command and called a callback
CancelledStartedCalled ==
    \E i, j \in RunsOf("B") :
        /\ i < j
        /\ cancels[i] = 1
        /\ cancels[j] = 0
        /\ tasks[j].pc = "start"
        /\ calls # <<>>
        /\ calls[1].event = "go"

\* the commands of cmds that have a run created by this step
StartedNow(cmds) ==
    {cmds[k].name : k \in {m \in DOMAIN cmds :
        \E j \in DOMAIN runs' \ RunIds : runs'[j].command_name = cmds[m].name}}

\* C15: a callback that raises does not abort the dispatch: every callback
\* registered for the event is called, in order, every subscribed command
\* not rejected is started, and trigger() returns without raising.
CallbackExceptionIsolated ==
    [][DispatchTrigger =>
          /\ Len(calls') = Len(CallbacksFor("go"))
          /\ \A k \in DOMAIN calls' : calls'[k].cb = k /\ calls'[k].event = "go"
          /\ StartedNow(TriggerMap("go")) \cup lastCall'.skipped =
                 {TriggerMap("go")[k].name : k \in DOMAIN TriggerMap("go")}
          /\ lastCall'.error = "none"]_vars

\* C15 witness: a callback was called after one that raised, in a dispatch
\* that started a run
CalledAfterRaise ==
    \E k \in DOMAIN calls :
        /\ calls[k].event = "go"
        /\ \E m \in 1..(k - 1) : CallbacksFor("go")[m].kind = "sync_raises"
        /\ \E j \in RunIds : tasks[j].pc = "start" /\ runs[j].trigger_event = "go"

\* the start loop of one dispatch of event: the `ignore` subscribers at
\* their limit are skipped, every other subscriber gets a new run
SkipsRejectedOnly(event) ==
    /\ lastCall'.skipped =
           {n \in Names : /\ InSeq(Cfg(n), TriggerMap(event))
                          /\ Cfg(n).on_retrigger = "ignore"
                          /\ AtLimit(n)}
    /\ StartedNow(TriggerMap(event)) =
           {TriggerMap(event)[k].name : k \in DOMAIN TriggerMap(event)}
              \ lastCall'.skipped

\* C16: trigger() does not raise, neither to a caller nor in a dispatch
\* task, for a cycle or for a rejected start; a rejected command is skipped
\* and the other subscribers of the event are started.
RejectedStartSkipped ==
    [][/\ (DispatchTrigger \/ RunTriggerTask) => lastCall'.error = "none"
       /\ DispatchTrigger => SkipsRejectedOnly("go")
       /\ (RunTriggerTask /\ ~InSeq(Head(ready).event, Head(ready).seen)) =>
              SkipsRejectedOnly(Head(ready).event)]_vars

\* C16 witness: a dispatch skipped the command at its limit and started the
\* other subscriber of the event
SkippedOneStartedOther ==
    /\ lastCall.op = "trigger"
    /\ lastCall.skipped = {"A"}
    /\ runs[Len(runs)].command_name = "B"
    /\ tasks[Len(runs)].pc = "start"

TimedOut(i) == runs[i].state = FAILED /\ runs[i].error = "Timeout exceeded"

\* C17: a run whose timeout fires is finalized FAILED with the timeout error
\* and stays so; the step that marks it asks its process to terminate, and
\* its task does not end before the process has exited.
TimeoutFailsThenTerminates ==
    [][\A i \in RunIds :
          /\ TimedOut(i) => TimedOut(i)'
          /\ (~TimedOut(i) /\ TimedOut(i)') => tasks'[i].pc # "to_read"
          /\ (TimedOut(i) /\ tasks'[i].pc = "done") => Exited(procs'[i])]_vars

\* C18: a cancelled run that is still live is never left waiting for its
\* process to act on its own: its task has a step pending, or waits for the
\* grace period after terminate(), or for the exit after kill().
CancelBoundedByGrace ==
    \A i \in RunIds :
        (cancels[i] >= 1 /\ IsLive(i) /\ tasks[i].pc # "done") =>
            \/ tasks[i].sched
            \/ tasks[i].pc \in {"c_sleep", "c_wait"}

\* C19: every cancel_run call returns with the result in a terminal state,
\* whatever the phase of the run at the call, and a call made on a result
\* already finalized changes nothing in the executor.
CancelRunFinalizes ==
    [][\A k \in DOMAIN executor'.callers :
          /\ executor'.callers[k].pc = "returned" => IsFinalized(executor'.result)
          /\ (k \notin DOMAIN executor.callers /\ IsFinalized(executor.result)) =>
                 /\ executor'.callers[k].pc = "returned"
                 /\ [executor' EXCEPT !.callers = executor.callers] = executor]_vars

\* C19 witness: a call made while the process was running has returned
\* after the process exited and the monitor task ended
CancelRunReturned ==
    \E k \in DOMAIN executor.callers :
        /\ executor.callers[k].pc = "returned"
        /\ executor.callers[k].process
        /\ executor.result.state = CANCELLED
        /\ Exited(executor.proc)
        /\ executor.task.pc = "done"

\* C20: the future the wait() calls share is never cancelled under a call
\* still waiting, no call ends with CancelledError, and a call that returns
\* returns the result of the handle.
WaitersShareResult ==
    \A k \in DOMAIN handle.waiters :
        LET w == handle.waiters[k]
        IN  /\ w.pc # "cancelled_error"
            /\ w.pc = "waiting" => handle.future # "cancelled"
            /\ w.pc = "returned" => w.got = <<handle.result>>

\* the most recent finalized run of n ended less than debounce_in_ms ago
InDebounceWindow(n) ==
    /\ Cfg(n).debounce_in_ms > 0
    /\ \E i \in RunsOf(n) :
          /\ IsFinished(runs[i])
          /\ clock - runs[i].end_time < Cfg(n).debounce_in_ms

\* C21: a start request inside the debounce window, measured from the end
\* of the most recent finalized run, creates no run and is answered with a
\* debounce error; a request outside the window creates a run.
DebounceRejectsInWindow ==
    [][DebounceStart =>
          IF InDebounceWindow("A")
          THEN runs' = runs /\ lastCall'.error # "none"
          ELSE Len(runs') = Len(runs) + 1]_vars

\* C22: with loop_detection = false on the subscribers of an event, a
\* dispatch of that event with the event already in its chain starts them
\* again; with loop_detection = true it is aborted.
LoopDetectionPerCommand ==
    [][(RunTriggerTask /\ InSeq(Head(ready).event, Head(ready).seen)) =>
          IF \A k \in DOMAIN TriggerMap(Head(ready).event) :
                ~TriggerMap(Head(ready).event)[k].loop_detection
          THEN Len(runs') > Len(runs)
          ELSE runs' = runs]_vars

\* C23: a run is never in a live list and a history at once; a live run is
\* exactly once in the live list of its own command and in no other; a
\* history holds runs of its own command, each once.
LiveHistoryDisjoint ==
    \A n \in Names :
        /\ NoRepeat(live[n])
        /\ NoRepeat(history[n])
        /\ \A i \in RunIds :
              /\ (InSeq(i, live[n]) \/ InSeq(i, history[n])) => runs[i].command_name = n
              /\ ~(InSeq(i, live[n]) /\ \E m \in Names : InSeq(i, history[m]))

\* C23 witness: both commands have a live run while the history of one
\* holds two finalized runs
LiveBesideFullHistory ==
    /\ Len(history["A"]) = 2
    /\ live["A"] # <<>>
    /\ live["B"] # <<>>

\* C24: the future of a RunResult is resolved by the first finalization
\* and by nothing else: set_result is called once, a later mark_* call
\* neither calls it again nor un-resolves the future.
FutureResolvedOnce ==
    [][/\ runs'[1].resolved <= 1
       /\ (runs'[1].future = "done") <=> (runs'[1].nfinal >= 1)
       /\ (runs[1].nfinal = 0 /\ runs'[1].nfinal = 1) => runs'[1].resolved = 1
       /\ runs[1].future = "done" =>
             /\ runs'[1].future = "done"
             /\ runs'[1].resolved = runs[1].resolved]_vars

\* C24 witness: a mark_* call was made on a finalized RunResult
FinalizedTwice == runs[1].nfinal = 2 /\ runs[1].resolved = 1

ValidTransition(a, b) ==
    \/ a = b
    \/ a = PENDING /\ b \in {RUNNING, CANCELLED}
    \/ a = RUNNING /\ b \in Terminal

\* C25: the state of a run moves only along PENDING -> RUNNING ->
\* {SUCCESS, FAILED, CANCELLED} or PENDING -> CANCELLED, on every path of
\* the executor, a failure to create the process included.
TransitionsFollowStateMachine ==
    [][ValidTransition(executor.result.state, executor'.result.state)]_vars

\* the live run of n created last
NewestLive(n) ==
    LET ids == {live[n][k] : k \in DOMAIN live[n]}
    IN  IF ids = {} THEN <<>>
        ELSE <<CHOOSE i \in ids : \A j \in ids : j <= i>>

HistoryNewestFirst ==
    \A n \in Names :
        GetHistory(n) # <<>> =>
            GetHistory(n)[1] = completed[n][Len(completed[n])]

\* C28: a call of decide allows with nothing to cancel when max_concurrent
\* is 0 or fewer than max_concurrent runs are active; otherwise it allows and
\* returns exactly the active runs under cancel_and_restart and disallows
\* with nothing to cancel under ignore; it leaves active_runs as they were.
DecideFollowsPolicy ==
    [][(CallConcurrencyDecide \/ CallExecutionDecide) =>
        LET cfg == policy.config
            active == policy.active_runs
            d == policy'.decision[1]
        IN  /\ policy'.active_runs = active
            /\ policy'.config = cfg
            /\ IF cfg.max_concurrent = 0 \/ Len(active) < cfg.max_concurrent
               THEN d.allow /\ d.runs_to_cancel = <<>>
               ELSE IF cfg.on_retrigger = "cancel_and_restart"
               THEN d.allow /\ d.runs_to_cancel = active
               ELSE ~d.allow /\ d.runs_to_cancel = <<>>]_vars

\* C28 witness: decide was called over the limit under cancel_and_restart and
\* returned all three active runs
RestartCancelsAllActive ==
    /\ policy.config.on_retrigger = "cancel_and_restart"
    /\ policy.config.max_concurrent = MaxLimit
    /\ Len(policy.active_runs) = MaxActive
    /\ policy.decision = <<NewRunDecision(TRUE, policy.active_runs)>>

\* C29: a failure of a run (nonzero exit, timeout, spawn failure, template
\* resolution failure) is not raised to a caller: the step that marks the run
\* FAILED gives it an error message and raises nothing to a caller, the run
\* stays FAILED, and once its task has completed it has moved from the live
\* list to the completed runs.
FailureStaysInRun ==
    [][\A i \in RunIds :
          /\ (runs[i].state # FAILED /\ runs'[i].state = FAILED) =>
                /\ runs'[i].error # NoError
                /\ lastCall'.error = "none"
          /\ runs[i].state = FAILED =>
                /\ runs'[i].state = FAILED
                /\ runs'[i].error = runs[i].error
          /\ (runs'[i].state = FAILED /\ Settled(i)') =>
                /\ ~IsLive(i)'
                /\ InSeq(i, completed'[runs[i].command_name])]_vars

\* C30: the task of a run never ends while the run is RUNNING: once the task
\* is done and _task_completed has run, the run is not RUNNING and is no longer
\* in the live list.
TaskNeverEndsRunning ==
    \A i \in RunIds :
        Settled(i) => (runs[i].state # RUNNING /\ ~IsLive(i))

\* C31: once cleanup() has returned, a run the executor tracked when it was
\* called is in a terminal state (no cancel_run call being still in progress),
\* and the executor tracks no process and no monitor task.
CleanupFinalizesActive ==
    \A k \in DOMAIN executor.callers :
        (/\ executor.callers[k].pc = "cl_returned"
         /\ executor.callers[k].task \/ executor.callers[k].process
         /\ \A j \in DOMAIN executor.callers :
               executor.callers[j].pc \in {"returned", "cl_returned"}) =>
            /\ IsFinalized(executor.result)
            /\ ~executor.processes
            /\ ~executor.tasks

\* run j is the run that replaced incumbent i: with max_concurrent = 1 it is
\* the next run of the command
ReplacedBy(i, j) ==
    /\ replaced[i]
    /\ Cfg(runs[i].command_name).max_concurrent = 1
    /\ j \in RunsOf(runs[i].command_name)
    /\ j > i
    /\ \A m \in RunsOf(runs[i].command_name) : m > i => j <= m

\* position of run i among the completed runs of its command, 0 if it is not
\* among them
CompletedAt(i) ==
    LET done == completed[runs[i].command_name]
    IN  IF InSeq(i, done) THEN CHOOSE k \in DOMAIN done : done[k] = i ELSE 0

\* C32: under cancel_and_restart an incumbent that finalized CANCELLED
\* completes before the run that replaced it: when the replacement is among
\* the completed runs of the command, the incumbent is there as an older
\* entry.
IncumbentFinalizesFirst ==
    \A i, j \in RunIds :
        (ReplacedBy(i, j) /\ runs[i].state = CANCELLED /\ CompletedAt(j) > 0) =>
            (CompletedAt(i) > 0 /\ CompletedAt(i) < CompletedAt(j))

\* C33: an event listed in the cancel_on_triggers of a command that is
\* running only cancels: the step that dispatches it creates no run of that
\* command, also when the event is listed in the command's triggers too.
CancelTriggerStartsNoRun ==
    [][\A j \in DOMAIN runs' :
          LET n == runs'[j].command_name
          IN  (/\ j \notin DOMAIN runs
               /\ InSeq(runs'[j].trigger_event, Cfg(n).cancel_on_triggers)
               /\ \E i \in RunsOf(n) :
                     IsLive(i) /\ runs[i].state = RUNNING /\ tasks[i].pc # "done")
              => FALSE]_vars

\* C34: a wait(timeout) that times out leaves the run as it is, and a wait()
\* called on the handle after such a timeout, once the run is finalized,
\* returns the RunResult.
HandleUsableAfterTimeout ==
    [][/\ WaitTimesOut => handle'.result = handle.result
       /\ \A k \in DOMAIN handle'.waiters :
             (/\ k \notin DOMAIN handle.waiters
              /\ IsFinalized(handle.result)
              /\ \E j \in DOMAIN handle.waiters :
                    handle.waiters[j].pc = "timeout_error")
             => /\ handle'.waiters[k].pc = "returned"
                /\ handle'.waiters[k].got = <<handle.result>>]_vars

\* C35: no run is CANCELLED while its child process is still alive.
CancelledAfterExit ==
    \A i \in RunIds : runs[i].state = CANCELLED => ~Alive(procs[i])

\* the references held by runs, by pending trigger tasks and by callers
ChainHolders ==
    {<<"run", i>> : i \in {k \in DOMAIN chains.runs : chains.runs[k].seen # 0}}
    \cup {<<"task", i>> : i \in {k \in DOMAIN chains.ready : chains.ready[k].seen # 0}}
    \cup {<<"arg", i>> : i \in {k \in DOMAIN chains.args : chains.args[k].ref # 0}}

HeldRef(h) ==
    IF h[1] = "run" THEN chains.runs[h[2]].seen
    ELSE IF h[1] = "task" THEN chains.ready[h[2]].seen
    ELSE chains.args[h[2]].ref

HeldMade(h) ==
    IF h[1] = "run" THEN chains.runs[h[2]].made
    ELSE IF h[1] = "task" THEN chains.ready[h[2]].made
    ELSE chains.args[h[2]].made

\* C36: the causal chain is branch-local: every run, every pending lifecycle
\* dispatch and every caller holds a list object of its own, and each list
\* still has the content its holder was given: no trigger() in another
\* branch changed it, and the list a caller passed is as it was passed.
ChainsBranchLocal ==
    \A g, h \in ChainHolders :
        /\ chains.lists[HeldRef(h)] = HeldMade(h)
        /\ g # h => HeldRef(g) # HeldRef(h)

\* C36 witness: a caller passed a list with an event in it, two sibling runs
\* were started from it, and a run further down the chain holds a longer one
SiblingsAndDownstream ==
    /\ \E k \in DOMAIN chains.args : chains.args[k].made = <<"x">>
    /\ \E i, j, d \in DOMAIN chains.runs :
          /\ chains.runs[i].command_name = "A"
          /\ chains.runs[j].command_name = "B"
          /\ chains.runs[i].made = <<"x", "go">>
          /\ chains.runs[j].made = <<"x", "go">>
          /\ chains.runs[d].made = <<"x", "go", "command_success:A">>

\* event is a lifecycle event of some command
IsLifecycleEvent(event) ==
    \E n \in Names, kind \in {"started", "success", "failed", "cancelled", "finished"} :
        event = "command_" \o kind \o ":" \o n

\* C37: a run started by dispatching event e with chain C records
\* trigger_event = e and the chain C followed by e; the lifecycle events of a
\* run are dispatched with the run's own chain, so the chain of a run started
\* by a lifecycle event is the chain of the run that emitted it followed by
\* that event.
ChainExtendsUpstream ==
    /\ \A j \in RunIds :
          LET r == runs[j]
          IN  IF IsLifecycleEvent(r.trigger_event)
              THEN \E i \in RunIds :
                      /\ i < j
                      /\ InSeq(r.trigger_event, emitted[i])
                      /\ r.seen = Append(runs[i].seen, r.trigger_event)
              ELSE r.seen \in {<<>>, <<r.trigger_event>>}
    /\ \A k \in DOMAIN ready :
          ready[k].kind = "trigger" => ready[k].seen = runs[ready[k].run].seen

\* C37 witness: Test was started by command_success:Build after
\* trigger("build"), and Report by command_success:Test after that
DownstreamOfDownstream ==
    \E i, j \in RunIds :
        /\ runs[i].command_name = "Test"
        /\ runs[i].trigger_event = "command_success:Build"
        /\ runs[i].seen = <<"build", "command_success:Build">>
        /\ runs[j].command_name = "Report"
        /\ runs[j].seen = <<"build", "command_success:Build", "command_success:Test">>

(***************************************************************************)
(* The completion of one run observed more than once: _task_completed is   *)
(* called again, as tests/test_command_runner/test_edge_cases.py calls it, *)
(* with the RunResult of a run whose done callback has already run.        *)
(***************************************************************************)
\* runner._task_completed(result.command_name, result) once more
TaskCompletedAgain ==
    \E i \in RunIds :
        /\ Settled(i)
        /\ LET s == TaskCompleted(Bundle, i)
           IN  /\ WithinBounds(s)
               /\ Commit(s)
               /\ lastCall' = [op |-> "_task_completed",
                               arg |-> runs[i].command_name,
                               error |-> IF runs[i].state = RUNNING
                                         THEN "ValueError" ELSE "none",
                               skipped |-> {}]
        /\ UNCHANGED <<config, clock, callbacks, executor, handle, policy, chains>>

NextObserve ==
    \/ NextDispatch
    \/ TaskCompletedAgain

SpecObserve == InitRegistered({<<Gate, Worker>>}, Registries) /\ [][NextObserve]_vars

\* C38: observing the completion of a run a second time changes nothing: the
\* history, the emitted lifecycle events, the live lists, the completion
\* order and the pending dispatches are what they were before it.
SecondObservationIdempotent ==
    [][TaskCompletedAgain =>
        /\ history' = history
        /\ emitted' = emitted
        /\ live' = live
        /\ completed' = completed
        /\ ready' = ready]_vars

\* a finished run, present in the history, has been observed a second time
ObservedTwice ==
    /\ lastCall.op = "_task_completed"
    /\ lastCall.error = "none"
    /\ history[lastCall.arg] # <<>>
    /\ LET i == history[lastCall.arg][1]
       IN  /\ ~IsLive(i)
           /\ InSeq("command_success:" \o lastCall.arg, emitted[i])

\* C39: the cascade of one external trigger ends with nothing left behind:
\* once no dispatch is pending and every task has ended (every process has
\* exited), no command has a live run.
CascadeEndsWithNoLiveRun ==
    DiamondSettled => \A n \in Names : live[n] = <<>>

\* C40: a terminal lifecycle event of a run (command_success, command_failed,
\* command_cancelled, command_finished) is emitted, and its dispatch is
\* pending, only once the run has left its command's live list; so the run
\* is not counted when that dispatch starts a run of the same command.
TerminalEventAfterRemoval ==
    /\ \A i \in RunIds : TerminalEvents(i) # <<>> => ~IsLive(i)
    /\ \A k \in DOMAIN ready :
          (/\ ready[k].kind = "trigger"
           /\ ready[k].event # StartedEvent(ready[k].run))
          => ~IsLive(ready[k].run)

\* Gate (max_concurrent 1, ignore) has a run started by the dispatch of the
\* command_success event of its own earlier run
StartedByOwnCompletion ==
    \E i, j \in RunIds :
        /\ runs[i].command_name = "A"
        /\ runs[j].command_name = "A"
        /\ runs[i].state = SUCCESS
        /\ InSeq("command_success:A", emitted[i])
        /\ runs[j].trigger_event = "command_success:A"
        /\ IsLive(j)

====
